---- MODULE Spec2Model ----
(***************************************************************************)
(* Interval tracking of the Events cog (src/cogs/events.py) over the       *)
(* tables of src/models.py.  Every listener runs as its own coroutine; a   *)
(* coroutine advances from one awaited database round trip to the next,    *)
(* so one action of the model is one such round trip (or the synchronous   *)
(* code between two of them).  Each "async with get_async_session()" is    *)
(* one transaction on a PostgreSQL connection (src/database.py:39), read   *)
(* committed: a statement sees the rows committed so far plus the          *)
(* transaction's own flushed changes, and a flushed UPDATE holds the row   *)
(* until the transaction ends.                                             *)
(***************************************************************************)
EXTENDS Integers, Sequences, FiniteSets, TLC

VARIABLES db, now, proc, member, nev, main

vars == <<db, now, proc, member, nev, main>>

-----------------------------------------------------------------------------
(* Bounds of the model. *)

MaxTime == 3

MaxEvents == 3

NULL == 0 - 1

Users == {1}

Procs == {1, 2}

Channels == {1, 2}

-----------------------------------------------------------------------------
(* Enumerations of src/models.py and the discord values that feed them. *)

DiscordStatus == {"online", "idle", "dnd", "offline", "streaming"}

RawStatus == {"online", "idle", "invisible"}

ActivityType == {"competing", "custom", "listening", "playing", "streaming", "watching"}

VoiceStateType == <<"deaf", "mute", "self_deaf", "self_mute", "self_stream", "self_video">>

(* The same conversion without the except clause of the ValueError. *)
ToDiscordStatusRaw(raw) == raw

ToDiscordStatus(raw) == IF raw \in DiscordStatus THEN raw ELSE "offline"

MessageType ==
    {"default", "recipient_add", "recipient_remove", "call", "channel_name_change",
     "channel_icon_change", "channel_pinned_message", "user_join", "guild_boost",
     "guild_boost_tier_1", "guild_boost_tier_2", "guild_boost_tier_3", "channel_follow_add",
     "guild_discovery_disqualified", "guild_discovery_requalified",
     "guild_discovery_grace_period_initial_warning",
     "guild_discovery_grace_period_final_warning", "thread_created", "reply",
     "chat_input_command", "thread_starter_message", "guild_invite_reminder",
     "context_menu_command", "role_subscription_purchase", "interaction_premium_upsell",
     "stage_start", "stage_end", "stage_speaker", "stage_raise_hand", "stage_topic",
     "guild_application_premium_subscription", "guild_incident_alert_mode_enabled",
     "guild_incident_alert_mode_disabled", "guild_incident_report_raid",
     "guild_incident_report_false_alarm", "purchase_notification", "poll_result"}

ToMessageType(raw) == IF raw \in MessageType THEN raw ELSE "default"

-----------------------------------------------------------------------------
(* The tables.  A table is the sequence of its rows; the index of a row is *)
(* its auto-increment id, and no statement of the cog deletes a row.       *)

Tables == {"users", "names", "presence", "activity", "custom", "sessions", "states", "messages"}

(* The tables whose rows are intervals with an open and a close timestamp. *)
IntervalTables == Tables \ {"users", "messages"}

CloseCol == [users |-> "none", names |-> "effective_until", presence |-> "changed_at",
             activity |-> "ended_at", custom |-> "cleared_at",
             sessions |-> "left_at", states |-> "ended_at", messages |-> "none"]

OpenCol == [users |-> "none", names |-> "effective_from", presence |-> "set_at",
            activity |-> "started_at", custom |-> "set_at",
            sessions |-> "joined_at", states |-> "started_at", messages |-> "sent_at"]

EmptyDB == [T \in Tables |-> <<>>]

NoIns == [T \in Tables |-> <<>>]

User(u, first) == [user_id |-> u, first_seen |-> first]

UserNameHistory(u, nm, t) ==
    [user_id |-> u, username |-> nm.username, display_name |-> nm.display_name,
     global_name |-> nm.global_name, effective_from |-> t, effective_until |-> NULL]

PresenceStatusLog(u, st, t) ==
    [user_id |-> u, status_type |-> st, set_at |-> t, changed_at |-> NULL]

ActivityLog(u, a, t) ==
    [user_id |-> u, activity_type |-> a[1], activity_name |-> a[2],
     started_at |-> t, ended_at |-> NULL]

CustomStatus(u, c, t) ==
    [user_id |-> u, status_text |-> c[1], emoji |-> c[2], set_at |-> t, cleared_at |-> NULL]

VoiceSession(u, ch, t) ==
    [user_id |-> u, channel_id |-> ch, joined_at |-> t, left_at |-> NULL]

VoiceStateLog(sid, ty, t) ==
    [session_id |-> sid, state_type |-> ty, started_at |-> t, ended_at |-> NULL]

MessageActivity(m) ==
    [message_id |-> m.mid, user_id |-> m.user, channel_id |-> m.ch,
     message_type |-> ToMessageType(m.ty), has_attachments |-> m.attachments > 0,
     has_embeds |-> m.embeds > 0, character_count |-> Len(m.content),
     sent_at |-> m.created_at]

(* Rows of table T that are open (close column null). *)
OpenIds(d, T) == {i \in DOMAIN d[T] : d[T][i][CloseCol[T]] = NULL}

(* The rows ORDER BY col DESC LIMIT 1 may return: any row with the largest *)
(* value of col (the order among equal values is not specified).           *)
MostRecent(d, T, ids) ==
    {i \in ids : \A j \in ids : d[T][j][OpenCol[T]] <= d[T][i][OpenCol[T]]}

(* A commit: the UPDATEs of the transaction (each sets the close column of *)
(* one row, by primary key, to the transaction's timestamp), then its      *)
(* INSERTs. cl is a set of <<table, id>>, ins a record of row sequences.   *)
ApplyTx(d, cl, t, ins) ==
    [T \in Tables |->
        [i \in DOMAIN d[T] |->
            IF <<T, i>> \in cl THEN [d[T][i] EXCEPT ![CloseCol[T]] = t] ELSE d[T][i]]
        \o ins[T]]

Ins1(T, row) == [NoIns EXCEPT ![T] = <<row>>]

-----------------------------------------------------------------------------
(* Snapshots the gateway hands to the listeners. *)

NoCustom == <<"none">>

Activity(ty, nm, st) == [type |-> ty, name |-> nm, state |-> st, emoji |-> "none"]

Game == Activity("playing", "g", "none")

Song == Activity("listening", "s", "none")

Custom(v) == Activity("custom", "Custom Status", v)

_extract_real_activities(acts) ==
    {<<a.type, a.name>> : a \in {x \in acts : /\ x.type # "custom"
                                              /\ x.name # "none"
                                              /\ x.type \in ActivityType}}

_extract_custom_status(acts) ==
    LET cs == {a \in acts : a.type = "custom"}
    IN  IF cs = {} THEN NoCustom
        ELSE LET a == CHOOSE x \in cs : TRUE IN <<a.state, a.emoji>>

NameA == [username |-> "a", display_name |-> "a", global_name |-> "a"]

NameB == [username |-> "b", display_name |-> "a", global_name |-> "a"]

NameC == [username |-> "b", display_name |-> "c", global_name |-> "a"]

NameTriples == {NameA, NameB, NameC}

PresenceEvent(u, bs, as, ba, aa) ==
    [kind |-> "presence", user |-> u, bs |-> bs, as |-> as, ba |-> ba, aa |-> aa]

VoiceEvent(u, bc, ac, bf, af) ==
    [kind |-> "voice", user |-> u, bc |-> bc, ac |-> ac, bf |-> bf, af |-> af]

RemoveEvent(u) == [kind |-> "remove", user |-> u]

UpdateEvent(u, an) == [kind |-> "update", user |-> u, an |-> an]

(* A message as the gateway hands it over: content is the text, attachments *)
(* and embeds the lengths of the two lists.                                *)
MessageEvent(u, bot, mid, ch, ty, content, attachments, embeds, created) ==
    [kind |-> "message", user |-> u, bot |-> bot, mid |-> mid, ch |-> ch, ty |-> ty,
     content |-> content, attachments |-> attachments, embeds |-> embeds,
     created_at |-> created]

EditEvent(u, bot, mid, content, attachments, embeds) ==
    [kind |-> "edit", user |-> u, bot |-> bot, mid |-> mid, content |-> content,
     attachments |-> attachments, embeds |-> embeds]

DeleteEvent(u, bot, mid) == [kind |-> "delete", user |-> u, bot |-> bot, mid |-> mid]

NoEvent == [kind |-> "none", user |-> 0]

-----------------------------------------------------------------------------
(* The coroutines.  proc[p] is one listener invocation: pc is the await it *)
(* is suspended at, ev its arguments, t its current_time, pend the rows    *)
(* its session has modified and not yet flushed, lock the rows whose       *)
(* UPDATE it has flushed, ins the rows it has added, sel and todo the      *)
(* results of its last select.  pre is the store when the listener was     *)
(* called and alone says that no other listener has run since.             *)

Rest == {"idle", "done", "failed"}

InFlight(q) == proc[q].pc \notin Rest

IdleProc ==
    [pc |-> "idle", ev |-> NoEvent, t |-> NULL, pre |-> EmptyDB, alone |-> TRUE,
     pend |-> {}, lock |-> {}, ins |-> NoIns, sel |-> NULL, todo |-> {}]

(* Leaving "async with get_async_session()": the session is closed. *)
EndTx(r) == [r EXCEPT !.pend = {}, !.lock = {}, !.ins = NoIns, !.sel = NULL, !.todo = {}]

Go(r, pc) == [EndTx(r) EXCEPT !.pc = pc]

LockedByOthers(p) == UNION {proc[q].lock : q \in Procs \ {p}}

(* The autoflush before a statement: the pending UPDATEs are sent; each    *)
(* waits while another transaction holds its row.                          *)
CanFlush(p) == proc[p].pend \cap LockedByOthers(p) = {}

Flushed(p) == proc[p].lock \cup proc[p].pend

(* Open rows of table T the next statement of p sees. *)
SeesOpen(p, T) == {i \in OpenIds(db, T) : <<T, i>> \notin Flushed(p)}

(* main() of bot.py: where it stands, whether init_database has set the   *)
(* session factory and whether the cog with the listeners is loaded.       *)
Running == [pc |-> "running", factory |-> TRUE, cogs |-> TRUE]

Init ==
    /\ main = Running
    /\ db = EmptyDB
    /\ now = 1
    /\ proc = [p \in Procs |-> IdleProc]
    /\ member = [u \in Users |-> NameA]
    /\ nev = 0

(* The clock of datetime.now(timezone.utc). *)
Tick ==
    /\ now < MaxTime
    /\ now' = now + 1
    /\ UNCHANGED <<db, proc, member, nev, main>>

(* Where a listener goes once get_or_create_user has returned. *)
AfterUser(e) ==
    CASE e.kind = "presence" -> IF e.bs # e.as THEN "st_clock" ELSE "ac_clock"
      [] e.kind = "voice" -> "v_clock"
      [] e.kind = "update" -> "nm_sel"
      [] e.kind = "message" -> "ms_commit"
      [] OTHER -> "done"

AfterStatus(e) == IF e.ba # e.aa THEN "ac_clock" ELSE "done"

(* The first await of each listener. *)
FirstPc(e) ==
    CASE e.kind = "presence" -> IF e.bs = e.as /\ e.ba = e.aa THEN "done" ELSE "gu_sel"
      [] e.kind = "voice" -> "gu_sel"
      [] e.kind = "remove" -> "td_sessions"
      [] e.kind = "update" -> IF member[e.user] # e.an THEN "gu_sel" ELSE "done"
      [] e.kind = "message" -> IF e.bot THEN "done" ELSE "gu_sel"
      [] e.kind = "edit" -> IF e.bot THEN "done" ELSE "me_sel"
      [] e.kind = "delete" -> "done"
      [] OTHER -> "gu_sel"

(* The gateway dispatches event e: a new coroutine starts, while at most   *)
(* limit coroutines are running.                                           *)
Dispatch(p, e, limit) ==
    /\ main.pc = "running" /\ main.cogs
    /\ nev < MaxEvents
    /\ proc[p].pc = "idle"
    /\ \A q \in Procs : q < p => proc[q].pc # "idle"
    /\ Cardinality({q \in Procs : proc[q].pc # "idle"}) < limit
    /\ nev' = nev + 1
    /\ proc' = [q \in Procs |->
                 IF q = p
                 THEN [IdleProc EXCEPT !.pc = FirstPc(e), !.ev = e,
                                       !.t = IF e.kind = "remove" THEN now ELSE NULL,
                                       !.pre = IF \A o \in Procs : proc[o].pc = "idle"
                                               THEN db ELSE EmptyDB,
                                       !.alone = \A o \in Procs : proc[o].pc = "idle"]
                 ELSE IF proc[q].pc = "idle" THEN proc[q]
                 ELSE [proc[q] EXCEPT !.alone = FALSE, !.pre = EmptyDB]]
    /\ member' = IF e.kind = "update" THEN [member EXCEPT ![e.user] = e.an] ELSE member
    /\ UNCHANGED <<db, now, main>>

(* The listener returns (after its last log line, or from its except      *)
(* clause): the coroutine is gone.                                         *)
Return(p) ==
    /\ proc[p].pc \in {"done", "failed"}
    /\ proc' = [proc EXCEPT ![p] = IdleProc]
    /\ UNCHANGED <<db, now, member, nev, main>>

-----------------------------------------------------------------------------
(* get_or_create_user and _create_name_history_entry. *)

UserIds(d) == {d.users[i].user_id : i \in DOMAIN d.users}

(* The same select followed by a new name entry also for a stored user. *)
GuSelRefresh(p) ==
    /\ proc[p].pc = "gu_sel"
    /\ proc' = [proc EXCEPT ![p] =
                 IF proc[p].ev.user \in UserIds(db)
                 THEN [@ EXCEPT !.pc = "nh_sel"]
                 ELSE [@ EXCEPT !.pc = "gu_commit"]]
    /\ UNCHANGED <<db, now, member, nev, main>>

(* select(User): the user exists, or it is about to be created. *)
GuSel(p) ==
    /\ proc[p].pc = "gu_sel"
    /\ proc' = [proc EXCEPT ![p] =
                 IF proc[p].ev.user \in UserIds(db)
                 THEN Go(@, AfterUser(@.ev))
                 ELSE [@ EXCEPT !.pc = "gu_commit"]]
    /\ UNCHANGED <<db, now, member, nev, main>>

(* session.add(db_user); commit.  user_id is the primary key: the INSERT   *)
(* of an id another coroutine has committed meanwhile raises.              *)
GuCommit(p) ==
    /\ proc[p].pc = "gu_commit"
    /\ IF proc[p].ev.user \in UserIds(db)
       THEN /\ proc' = [proc EXCEPT ![p] = Go(@, "failed")]
            /\ db' = db
       ELSE /\ db' = ApplyTx(db, {}, NULL, Ins1("users", User(proc[p].ev.user, 0)))
            /\ proc' = [proc EXCEPT ![p].pc = "nh_sel"]
    /\ UNCHANGED <<now, member, nev, main>>

(* select(UserNameHistory) of the current entries, then the clock. *)
NhSel(p) ==
    /\ proc[p].pc \in {"nh_sel", "nm_sel"}
    /\ proc' = [proc EXCEPT ![p] =
                 [@ EXCEPT !.pc = IF proc[p].pc = "nh_sel" THEN "nh_commit" ELSE "nm_commit",
                           !.t = now,
                           !.pend = {<<"names", i>> : i \in
                                       {j \in SeesOpen(p, "names") :
                                          db.names[j].user_id = proc[p].ev.user}}]]
    /\ UNCHANGED <<db, now, member, nev, main>>

(* The same commit with the clock read again for effective_from. *)
NhCommitNow(p) ==
    /\ proc[p].pc \in {"nh_commit", "nm_commit"}
    /\ CanFlush(p)
    /\ db' = ApplyTx(db, Flushed(p), proc[p].t,
                     Ins1("names", UserNameHistory(proc[p].ev.user,
                                                   member[proc[p].ev.user], now)))
    /\ proc' = [proc EXCEPT ![p] =
                 Go(@, IF @.pc = "nh_commit" THEN AfterUser(@.ev) ELSE "done")]
    /\ UNCHANGED <<now, member, nev, main>>

(* The current entries are closed and the new entry is added; commit. *)
NhCommit(p) ==
    /\ proc[p].pc \in {"nh_commit", "nm_commit"}
    /\ CanFlush(p)
    /\ db' = ApplyTx(db, Flushed(p), proc[p].t,
                     Ins1("names", UserNameHistory(proc[p].ev.user,
                                                   member[proc[p].ev.user], proc[p].t)))
    /\ proc' = [proc EXCEPT ![p] =
                 Go(@, IF @.pc = "nh_commit" THEN AfterUser(@.ev) ELSE "done")]
    /\ UNCHANGED <<now, member, nev, main>>

-----------------------------------------------------------------------------
(* _handle_status_change. *)

(* The same select with the null test inverted. *)
OpenPresenceInverted(p) ==
    {i \in DOMAIN db.presence : /\ db.presence[i].user_id = proc[p].ev.user
                                /\ db.presence[i].changed_at # NULL}

OpenPresence(p) == {i \in SeesOpen(p, "presence") : db.presence[i].user_id = proc[p].ev.user}

StClock(p) ==
    /\ proc[p].pc = "st_clock"
    /\ proc' = [proc EXCEPT ![p] = [@ EXCEPT !.pc = "st_sel1", !.t = now]]
    /\ UNCHANGED <<db, now, member, nev, main>>

(* The latest open row, if any: its changed_at is set. *)
StSel1(p) ==
    /\ proc[p].pc = "st_sel1"
    /\ \E cur \in IF OpenPresence(p) = {} THEN {NULL}
                  ELSE MostRecent(db, "presence", OpenPresence(p)) :
          proc' = [proc EXCEPT ![p] =
                    [@ EXCEPT !.pc = "st_sel2",
                              !.pend = IF cur = NULL THEN {} ELSE {<<"presence", cur>>}]]
    /\ UNCHANGED <<db, now, member, nev, main>>

(* The same step without the second select. *)
StSel2NoOrphans(p) ==
    /\ proc[p].pc = "st_sel2"
    /\ CanFlush(p)
    /\ proc' = [proc EXCEPT ![p] = [@ EXCEPT !.pc = "st_commit", !.lock = Flushed(p), !.pend = {}]]
    /\ UNCHANGED <<db, now, member, nev, main>>

(* The other open rows of the user: their changed_at is set too. *)
StSel2(p) ==
    /\ proc[p].pc = "st_sel2"
    /\ CanFlush(p)
    /\ proc' = [proc EXCEPT ![p] =
                 [@ EXCEPT !.pc = "st_commit",
                           !.lock = Flushed(p),
                           !.pend = {<<"presence", i>> : i \in OpenPresence(p)}]]
    /\ UNCHANGED <<db, now, member, nev, main>>

(* The new row is added; commit. *)
StCommit(p) ==
    /\ proc[p].pc = "st_commit"
    /\ CanFlush(p)
    /\ db' = ApplyTx(db, Flushed(p), proc[p].t,
                     Ins1("presence", PresenceStatusLog(proc[p].ev.user,
                                                        ToDiscordStatus(proc[p].ev.as),
                                                        proc[p].t)))
    /\ proc' = [proc EXCEPT ![p] = Go(@, AfterStatus(@.ev))]
    /\ UNCHANGED <<now, member, nev, main>>

-----------------------------------------------------------------------------
(* _handle_activity_change, _end_activity, _start_activity. *)

Stopped(e) == _extract_real_activities(e.ba) \ _extract_real_activities(e.aa)

Started(e) == _extract_real_activities(e.aa) \ _extract_real_activities(e.ba)

(* _handle_custom_status_change up to its first await. *)
AfterActivity(e) ==
    IF \/ _extract_custom_status(e.ba) = _extract_custom_status(e.aa)
       \/ _extract_custom_status(e.aa) = NoCustom
    THEN "done" ELSE "cs_sel"

(* The orders in which a set may be iterated. *)
Orders(S) == {q \in [1 .. Cardinality(S) -> S] : \A a \in S : \E i \in DOMAIN q : q[i] = a}

AcClock(p) ==
    /\ proc[p].pc = "ac_clock"
    /\ proc' = [proc EXCEPT ![p] =
                 [@ EXCEPT !.t = now, !.todo = Stopped(proc[p].ev),
                           !.pc = IF Stopped(proc[p].ev) = {} THEN "ac_commit" ELSE "ac_end"]]
    /\ UNCHANGED <<db, now, member, nev, main>>

OpenActivity(p, a) ==
    {i \in SeesOpen(p, "activity") : /\ db.activity[i].user_id = proc[p].ev.user
                                     /\ db.activity[i].activity_type = a[1]
                                     /\ db.activity[i].activity_name = a[2]}

(* The same select ordered by started_at ascending: the earliest open row. *)
AcEndOldest(p) ==
    /\ proc[p].pc = "ac_end"
    /\ CanFlush(p)
    /\ \E a \in proc[p].todo :
         \E cur \in IF OpenActivity(p, a) = {} THEN {NULL}
                    ELSE {i \in OpenActivity(p, a) :
                            \A j \in OpenActivity(p, a) :
                               db.activity[i].started_at <= db.activity[j].started_at} :
            proc' = [proc EXCEPT ![p] =
                      [@ EXCEPT !.lock = Flushed(p),
                                !.pend = IF cur = NULL THEN {} ELSE {<<"activity", cur>>},
                                !.todo = @ \ {a},
                                !.pc = IF proc[p].todo = {a} THEN "ac_commit" ELSE "ac_end"]]
    /\ UNCHANGED <<db, now, member, nev, main>>

(* _end_activity of one stopped activity: its latest open row, if any. *)
AcEnd(p) ==
    /\ proc[p].pc = "ac_end"
    /\ CanFlush(p)
    /\ \E a \in proc[p].todo :
         \E cur \in IF OpenActivity(p, a) = {} THEN {NULL}
                    ELSE MostRecent(db, "activity", OpenActivity(p, a)) :
            proc' = [proc EXCEPT ![p] =
                      [@ EXCEPT !.lock = Flushed(p),
                                !.pend = IF cur = NULL THEN {} ELSE {<<"activity", cur>>},
                                !.todo = @ \ {a},
                                !.pc = IF proc[p].todo = {a} THEN "ac_commit" ELSE "ac_end"]]
    /\ UNCHANGED <<db, now, member, nev, main>>

(* The same commit where a started activity reopens its rows instead of adding one. *)
AcCommitReopen(p) ==
    /\ proc[p].pc = "ac_commit"
    /\ CanFlush(p)
    /\ LET d == ApplyTx(db, Flushed(p), proc[p].t, NoIns)
       IN  db' = [d EXCEPT !.activity =
                    [i \in DOMAIN d.activity |->
                       IF <<d.activity[i].activity_type, d.activity[i].activity_name>>
                             \in Started(proc[p].ev)
                       THEN [d.activity[i] EXCEPT !.ended_at = NULL]
                       ELSE d.activity[i]]]
    /\ proc' = [proc EXCEPT ![p] = Go(@, AfterActivity(@.ev))]
    /\ UNCHANGED <<now, member, nev, main>>

(* _start_activity of every started activity; commit. *)
AcCommit(p) ==
    /\ proc[p].pc = "ac_commit"
    /\ CanFlush(p)
    /\ \E ord \in Orders(Started(proc[p].ev)) :
          db' = ApplyTx(db, Flushed(p), proc[p].t,
                        [NoIns EXCEPT !.activity =
                           [i \in DOMAIN ord |-> ActivityLog(proc[p].ev.user, ord[i], proc[p].t)]])
    /\ proc' = [proc EXCEPT ![p] = Go(@, AfterActivity(@.ev))]
    /\ UNCHANGED <<now, member, nev, main>>

-----------------------------------------------------------------------------
(* _handle_custom_status_change. *)

(* The same select finding nothing. *)
SameCustomNone(p) == {}

SameCustom(p) ==
    LET c == _extract_custom_status(proc[p].ev.aa)
    IN  {i \in DOMAIN db.custom : /\ db.custom[i].user_id = proc[p].ev.user
                                  /\ db.custom[i].status_text = c[1]
                                  /\ db.custom[i].emoji = c[2]}

(* scalar_one_or_none() of the rows with this user, text and emoji: it     *)
(* raises when there are several.                                          *)
CsSel(p) ==
    /\ proc[p].pc = "cs_sel"
    /\ proc' = [proc EXCEPT ![p] =
                 IF Cardinality(SameCustom(p)) > 1 THEN Go(@, "failed")
                 ELSE IF SameCustom(p) # {} THEN Go(@, "done")
                 ELSE [@ EXCEPT !.pc = "cs_commit", !.t = now]]
    /\ UNCHANGED <<db, now, member, nev, main>>

(* The same commit closing the open custom-status rows of the user first. *)
CsCommitClosePrev(p) ==
    /\ proc[p].pc = "cs_commit"
    /\ db' = ApplyTx(db, {<<"custom", i>> : i \in {j \in OpenIds(db, "custom") :
                                                   db.custom[j].user_id = proc[p].ev.user}},
                     proc[p].t,
                     Ins1("custom", CustomStatus(proc[p].ev.user,
                                                 _extract_custom_status(proc[p].ev.aa),
                                                 proc[p].t)))
    /\ proc' = [proc EXCEPT ![p] = Go(@, "done")]
    /\ UNCHANGED <<now, member, nev, main>>

CsCommit(p) ==
    /\ proc[p].pc = "cs_commit"
    /\ db' = ApplyTx(db, {}, NULL,
                     Ins1("custom", CustomStatus(proc[p].ev.user,
                                                 _extract_custom_status(proc[p].ev.aa),
                                                 proc[p].t)))
    /\ proc' = [proc EXCEPT ![p] = Go(@, "done")]
    /\ UNCHANGED <<now, member, nev, main>>

-----------------------------------------------------------------------------
(* on_voice_state_update and its four branches.  Channel 0 is no channel. *)

VoiceBranch(e) ==
    CASE e.bc # 0 /\ e.ac = 0 -> "lv_sel"
      [] e.bc = 0 /\ e.ac # 0 -> "jn_commit1"
      [] e.bc # 0 /\ e.ac # 0 /\ e.bc # e.ac -> "lv_sel"
      [] e.bc # 0 /\ e.ac # 0 /\ e.bc = e.ac -> "sc_sel"
      [] OTHER -> "done"

(* _handle_voice_move: the join follows the leave. *)
AfterLeave(e) == IF e.ac # 0 THEN "jn_commit1" ELSE "done"

VClock(p) ==
    /\ proc[p].pc = "v_clock"
    /\ proc' = [proc EXCEPT ![p] = [Go(@, VoiceBranch(@.ev)) EXCEPT !.t = now]]
    /\ UNCHANGED <<db, now, member, nev, main>>

OpenSession(p, ch) ==
    {i \in SeesOpen(p, "sessions") : /\ db.sessions[i].user_id = proc[p].ev.user
                                     /\ db.sessions[i].channel_id = ch}

OpenStates(p, sid) == {i \in SeesOpen(p, "states") : db.states[i].session_id = sid}

(* The same select without the test of left_at when no session is open. *)
LvSelAny(p) ==
    /\ proc[p].pc = "lv_sel"
    /\ LET any == {i \in DOMAIN db.sessions : /\ db.sessions[i].user_id = proc[p].ev.user
                                               /\ db.sessions[i].channel_id = proc[p].ev.bc}
           rows == IF OpenSession(p, proc[p].ev.bc) # {} THEN OpenSession(p, proc[p].ev.bc) ELSE any
       IN  \E cur \in IF rows = {} THEN {NULL} ELSE MostRecent(db, "sessions", rows) :
             proc' = [proc EXCEPT ![p] =
                       IF cur = NULL THEN Go(@, AfterLeave(@.ev))
                       ELSE [@ EXCEPT !.pc = "lv_states", !.sel = cur,
                                      !.pend = {<<"sessions", cur>>}]]
    /\ UNCHANGED <<db, now, member, nev, main>>

(* _handle_voice_leave: the latest open session of the user in the old     *)
(* channel; without one the leave does nothing.                            *)
LvSel(p) ==
    /\ proc[p].pc = "lv_sel"
    /\ \E cur \in IF OpenSession(p, proc[p].ev.bc) = {} THEN {NULL}
                  ELSE MostRecent(db, "sessions", OpenSession(p, proc[p].ev.bc)) :
          proc' = [proc EXCEPT ![p] =
                    IF cur = NULL THEN Go(@, AfterLeave(@.ev))
                    ELSE [@ EXCEPT !.pc = "lv_states", !.sel = cur,
                                   !.pend = {<<"sessions", cur>>}]]
    /\ UNCHANGED <<db, now, member, nev, main>>

(* The same step without _end_active_voice_states. *)
LvStatesSkip(p) ==
    /\ proc[p].pc = "lv_states"
    /\ CanFlush(p)
    /\ proc' = [proc EXCEPT ![p] = [@ EXCEPT !.pc = "lv_commit", !.lock = Flushed(p), !.pend = {}]]
    /\ UNCHANGED <<db, now, member, nev, main>>

(* _end_active_voice_states of the session found. *)
LvStates(p) ==
    /\ proc[p].pc = "lv_states"
    /\ CanFlush(p)
    /\ proc' = [proc EXCEPT ![p] =
                 [@ EXCEPT !.pc = "lv_commit", !.lock = Flushed(p),
                           !.pend = {<<"states", i>> : i \in OpenStates(p, proc[p].sel)}]]
    /\ UNCHANGED <<db, now, member, nev, main>>

LvCommit(p) ==
    /\ proc[p].pc = "lv_commit"
    /\ CanFlush(p)
    /\ db' = ApplyTx(db, Flushed(p), proc[p].t, NoIns)
    /\ proc' = [proc EXCEPT ![p] = Go(@, AfterLeave(@.ev))]
    /\ UNCHANGED <<now, member, nev, main>>

(* The same step with the clock read again instead of current_time. *)
JnCommit1Now(p) ==
    /\ proc[p].pc = "jn_commit1"
    /\ db' = ApplyTx(db, {}, NULL,
                     Ins1("sessions", VoiceSession(proc[p].ev.user, proc[p].ev.ac, now)))
    /\ proc' = [proc EXCEPT ![p] = [@ EXCEPT !.pc = "jn_commit2", !.sel = Len(db.sessions) + 1]]
    /\ UNCHANGED <<now, member, nev, main>>

(* _handle_voice_join: the session row is committed first. *)
JnCommit1(p) ==
    /\ proc[p].pc = "jn_commit1"
    /\ db' = ApplyTx(db, {}, NULL,
                     Ins1("sessions", VoiceSession(proc[p].ev.user, proc[p].ev.ac, proc[p].t)))
    /\ proc' = [proc EXCEPT ![p] = [@ EXCEPT !.pc = "jn_commit2", !.sel = Len(db.sessions) + 1]]
    /\ UNCHANGED <<now, member, nev, main>>

(* The flags of flags, in the order of states_to_track. *)
FlagSeq(flags) == SelectSeq(VoiceStateType, LAMBDA f : f \in flags)

(* The same without the test of is_active: a row for each of the six flags. *)
_track_all_states(sid, flags, t) ==
    [i \in DOMAIN VoiceStateType |-> VoiceStateLog(sid, VoiceStateType[i], t)]

_track_voice_states(sid, flags, t) ==
    [i \in DOMAIN FlagSeq(flags) |-> VoiceStateLog(sid, FlagSeq(flags)[i], t)]

(* The rows of the flags that are set, in a second commit. *)
JnCommit2(p) ==
    /\ proc[p].pc = "jn_commit2"
    /\ db' = ApplyTx(db, {}, NULL,
                     [NoIns EXCEPT !.states =
                        _track_voice_states(proc[p].sel, proc[p].ev.af, proc[p].t)])
    /\ proc' = [proc EXCEPT ![p] = Go(@, "done")]
    /\ UNCHANGED <<now, member, nev, main>>

(* The same select followed by the end of every flag of the before snapshot. *)
ScSelAllBefore(p) ==
    /\ proc[p].pc = "sc_sel"
    /\ \E cur \in IF OpenSession(p, proc[p].ev.ac) = {} THEN {NULL}
                  ELSE MostRecent(db, "sessions", OpenSession(p, proc[p].ev.ac)) :
          proc' = [proc EXCEPT ![p] =
                    IF cur = NULL THEN Go(@, "done")
                    ELSE [@ EXCEPT !.sel = cur, !.todo = proc[p].ev.bf,
                                   !.pc = IF proc[p].ev.bf = {} THEN "sc_commit" ELSE "sc_end"]]
    /\ UNCHANGED <<db, now, member, nev, main>>

(* _handle_voice_state_change: the latest open session in the channel. *)
ScSel(p) ==
    /\ proc[p].pc = "sc_sel"
    /\ \E cur \in IF OpenSession(p, proc[p].ev.ac) = {} THEN {NULL}
                  ELSE MostRecent(db, "sessions", OpenSession(p, proc[p].ev.ac)) :
          proc' = [proc EXCEPT ![p] =
                    IF cur = NULL THEN Go(@, "done")
                    ELSE [@ EXCEPT !.sel = cur, !.todo = proc[p].ev.bf \ proc[p].ev.af,
                                   !.pc = IF proc[p].ev.bf \ proc[p].ev.af = {} THEN "sc_commit"
                                          ELSE "sc_end"]]
    /\ UNCHANGED <<db, now, member, nev, main>>

OpenState(p, sid, f) == {i \in OpenStates(p, sid) : db.states[i].state_type = f}

(* _end_voice_state of the next flag that went off, in the order of        *)
(* state_changes: its latest open row, if any.                             *)
ScEnd(p) ==
    /\ proc[p].pc = "sc_end"
    /\ CanFlush(p)
    /\ LET f == FlagSeq(proc[p].todo)[1]
       IN  \E cur \in IF OpenState(p, proc[p].sel, f) = {} THEN {NULL}
                      ELSE MostRecent(db, "states", OpenState(p, proc[p].sel, f)) :
             proc' = [proc EXCEPT ![p] =
                       [@ EXCEPT !.lock = Flushed(p),
                                 !.pend = IF cur = NULL THEN {} ELSE {<<"states", cur>>},
                                 !.todo = @ \ {f},
                                 !.pc = IF proc[p].todo = {f} THEN "sc_commit" ELSE "sc_end"]]
    /\ UNCHANGED <<db, now, member, nev, main>>

(* The same commit without the rows of the flags that went on. *)
ScCommitNoStart(p) ==
    /\ proc[p].pc = "sc_commit"
    /\ CanFlush(p)
    /\ db' = ApplyTx(db, Flushed(p), proc[p].t, NoIns)
    /\ proc' = [proc EXCEPT ![p] = Go(@, "done")]
    /\ UNCHANGED <<now, member, nev, main>>

(* The rows of the flags that went on; commit. *)
ScCommit(p) ==
    /\ proc[p].pc = "sc_commit"
    /\ CanFlush(p)
    /\ db' = ApplyTx(db, Flushed(p), proc[p].t,
                     [NoIns EXCEPT !.states =
                        _track_voice_states(proc[p].sel, proc[p].ev.af \ proc[p].ev.bf,
                                            proc[p].t)])
    /\ proc' = [proc EXCEPT ![p] = Go(@, "done")]
    /\ UNCHANGED <<now, member, nev, main>>

-----------------------------------------------------------------------------
(* _end_active_sessions (on_member_remove). *)

(* The same select without the test of user_id. *)
TdSessionsAll(p) ==
    /\ proc[p].pc = "td_sessions"
    /\ LET open == SeesOpen(p, "sessions")
       IN  proc' = [proc EXCEPT ![p] =
                     [@ EXCEPT !.todo = open,
                               !.pc = IF open = {} THEN "td_presence" ELSE "td_states"]]
    /\ UNCHANGED <<db, now, member, nev, main>>

(* select of the open sessions of the user. *)
TdSessions(p) ==
    /\ proc[p].pc = "td_sessions"
    /\ LET open == {i \in SeesOpen(p, "sessions") : db.sessions[i].user_id = proc[p].ev.user}
       IN  proc' = [proc EXCEPT ![p] =
                     [@ EXCEPT !.todo = open,
                               !.pc = IF open = {} THEN "td_presence" ELSE "td_states"]]
    /\ UNCHANGED <<db, now, member, nev, main>>

(* The same round with a commit of its own for the session. *)
TdStatesCommitEach(p) ==
    /\ proc[p].pc = "td_states"
    /\ \E s \in proc[p].todo :
         /\ (proc[p].pend \cup {<<"sessions", s>>}) \cap LockedByOthers(p) = {}
         /\ db' = ApplyTx(db, {<<"sessions", s>>}, proc[p].t, NoIns)
         /\ proc' = [proc EXCEPT ![p] =
                      [@ EXCEPT !.lock = Flushed(p) \cup {<<"sessions", s>>},
                                !.pend = {<<"states", i>> : i \in OpenStates(p, s)},
                                !.todo = @ \ {s},
                                !.pc = IF proc[p].todo = {s} THEN "td_presence"
                                       ELSE "td_states"]]
    /\ UNCHANGED <<now, member, nev, main>>

(* One round of the loop: left_at of the session is set, then              *)
(* _end_active_voice_states selects and ends its open states.              *)
TdStates(p) ==
    /\ proc[p].pc = "td_states"
    /\ \E s \in proc[p].todo :
         /\ (proc[p].pend \cup {<<"sessions", s>>}) \cap LockedByOthers(p) = {}
         /\ proc' = [proc EXCEPT ![p] =
                      [@ EXCEPT !.lock = Flushed(p) \cup {<<"sessions", s>>},
                                !.pend = {<<"states", i>> : i \in OpenStates(p, s)},
                                !.todo = @ \ {s},
                                !.pc = IF proc[p].todo = {s} THEN "td_presence"
                                       ELSE "td_states"]]
    /\ UNCHANGED <<db, now, member, nev, main>>

(* select of the latest open presence row (limit 1). *)
TdPresence(p) ==
    /\ proc[p].pc = "td_presence"
    /\ CanFlush(p)
    /\ \E cur \in IF OpenPresence(p) = {} THEN {NULL}
                  ELSE MostRecent(db, "presence", OpenPresence(p)) :
          proc' = [proc EXCEPT ![p] =
                    [@ EXCEPT !.pc = "td_acts", !.lock = Flushed(p),
                              !.pend = IF cur = NULL THEN {} ELSE {<<"presence", cur>>}]]
    /\ UNCHANGED <<db, now, member, nev, main>>

(* The same select extended to the open custom-status rows of the user. *)
TdActsAndCustom(p) ==
    /\ proc[p].pc = "td_acts"
    /\ CanFlush(p)
    /\ proc' = [proc EXCEPT ![p] =
                 [@ EXCEPT !.pc = "td_commit", !.lock = Flushed(p),
                           !.pend = {<<"activity", i>> : i \in
                                       {j \in SeesOpen(p, "activity") :
                                          db.activity[j].user_id = proc[p].ev.user}}
                                    \cup {<<"custom", i>> : i \in
                                       {j \in SeesOpen(p, "custom") :
                                          db.custom[j].user_id = proc[p].ev.user}}]]
    /\ UNCHANGED <<db, now, member, nev, main>>

(* select of the open activity rows of the user. *)
TdActs(p) ==
    /\ proc[p].pc = "td_acts"
    /\ CanFlush(p)
    /\ proc' = [proc EXCEPT ![p] =
                 [@ EXCEPT !.pc = "td_commit", !.lock = Flushed(p),
                           !.pend = {<<"activity", i>> : i \in
                                       {j \in SeesOpen(p, "activity") :
                                          db.activity[j].user_id = proc[p].ev.user}}]]
    /\ UNCHANGED <<db, now, member, nev, main>>

(* The same commit deleting the presence rows of the user that it closes. *)
TdCommitPurge(p) ==
    /\ proc[p].pc = "td_commit"
    /\ CanFlush(p)
    /\ LET d == ApplyTx(db, Flushed(p), proc[p].t, NoIns)
       IN  db' = [d EXCEPT !.presence = SelectSeq(db.presence, LAMBDA r : r.changed_at # NULL)]
    /\ proc' = [proc EXCEPT ![p] = Go(@, "done")]
    /\ UNCHANGED <<now, member, nev, main>>

(* The same commit with member.joined_at as the close timestamp. *)
TdCommitJoinedAt(p) ==
    /\ proc[p].pc = "td_commit"
    /\ CanFlush(p)
    /\ db' = ApplyTx(db, Flushed(p), 0, NoIns)
    /\ proc' = [proc EXCEPT ![p] = Go(@, "done")]
    /\ UNCHANGED <<now, member, nev, main>>

TdCommit(p) ==
    /\ proc[p].pc = "td_commit"
    /\ CanFlush(p)
    /\ db' = ApplyTx(db, Flushed(p), proc[p].t, NoIns)
    /\ proc' = [proc EXCEPT ![p] = Go(@, "done")]
    /\ UNCHANGED <<now, member, nev, main>>

-----------------------------------------------------------------------------
(* on_message, on_message_edit, on_message_delete. *)

MessageRows(d, mid) == {i \in DOMAIN d.messages : d.messages[i].message_id = mid}

(* The same without the except clause: the exception leaves the listener. *)
OnErrorRaise(e) == "raised"

(* The except clause of a listener, reached with the transaction rolled    *)
(* back: the error is logged and the listener returns.                     *)
OnError(e) == "failed"

(* session.add(message_activity); commit.  message_id is the primary key:  *)
(* the INSERT of an id that is stored raises.                              *)
MsCommit(p) ==
    /\ proc[p].pc = "ms_commit"
    /\ IF MessageRows(db, proc[p].ev.mid) # {}
       THEN /\ proc' = [proc EXCEPT ![p] = Go(@, OnError(@.ev))]
            /\ db' = db
       ELSE /\ db' = ApplyTx(db, {}, NULL, Ins1("messages", MessageActivity(proc[p].ev)))
            /\ proc' = [proc EXCEPT ![p] = Go(@, "done")]
    /\ UNCHANGED <<now, member, nev, main>>

(* select(MessageActivity) by message_id. *)
MeSel(p) ==
    /\ proc[p].pc = "me_sel"
    /\ proc' = [proc EXCEPT ![p] =
                 IF MessageRows(db, proc[p].ev.mid) = {} THEN Go(@, "done")
                 ELSE [@ EXCEPT !.pc = "me_commit",
                                !.sel = CHOOSE i \in MessageRows(db, proc[p].ev.mid) : TRUE]]
    /\ UNCHANGED <<db, now, member, nev, main>>

(* The same commit taking every column from the edited message. *)
MeCommitAll(p) ==
    /\ proc[p].pc = "me_commit"
    /\ db' = [db EXCEPT !.messages[proc[p].sel] =
                 [@ EXCEPT !.character_count = Len(proc[p].ev.content),
                           !.has_attachments = proc[p].ev.attachments > 0,
                           !.has_embeds = proc[p].ev.embeds > 0,
                           !.sent_at = now]]
    /\ proc' = [proc EXCEPT ![p] = Go(@, "done")]
    /\ UNCHANGED <<now, member, nev, main>>

(* The three columns of the record are set from the edited message; commit. *)
MeCommit(p) ==
    /\ proc[p].pc = "me_commit"
    /\ db' = [db EXCEPT !.messages[proc[p].sel] =
                 [@ EXCEPT !.character_count = Len(proc[p].ev.content),
                           !.has_attachments = proc[p].ev.attachments > 0,
                           !.has_embeds = proc[p].ev.embeds > 0]]
    /\ proc' = [proc EXCEPT ![p] = Go(@, "done")]
    /\ UNCHANGED <<now, member, nev, main>>

-----------------------------------------------------------------------------
(* The events of the model. *)

StatusEvents ==
    {PresenceEvent(u, bs, as, {}, {}) : u \in Users, bs \in {"online"}, as \in {"idle", "invisible"}}

ActivityEvents ==
    {PresenceEvent(u, "online", "online", {}, {Game}) : u \in Users}
    \cup {PresenceEvent(u, "online", "online", {Game}, {Custom("v")}) : u \in Users}

JoinEvents == {VoiceEvent(u, 0, 1, {}, {"mute"}) : u \in Users}

LeaveEvents == {VoiceEvent(u, 2, 0, {}, {}) : u \in Users}

MoveEvents == {VoiceEvent(u, 1, 2, {"mute"}, {"mute", "self_deaf"}) : u \in Users}

FlagEvents == {VoiceEvent(u, 2, 2, {"mute", "self_deaf"}, {"self_deaf", "self_video"}) : u \in Users}

VoiceEvents == JoinEvents \cup LeaveEvents \cup MoveEvents \cup FlagEvents

RemoveEvents == {RemoveEvent(u) : u \in Users}

UpdateEvents == {UpdateEvent(u, n) : u \in Users, n \in {NameA, NameB}}

Events ==
    StatusEvents \cup ActivityEvents \cup VoiceEvents \cup RemoveEvents \cup UpdateEvents

-----------------------------------------------------------------------------
(* Events handled one at a time, the clock never stepping back, no failure. *)

Step(p) ==
    \/ GuSel(p) \/ GuCommit(p) \/ NhSel(p) \/ NhCommit(p)
    \/ StClock(p) \/ StSel1(p) \/ StSel2(p) \/ StCommit(p)
    \/ AcClock(p) \/ AcEnd(p) \/ AcCommit(p) \/ CsSel(p) \/ CsCommit(p)
    \/ VClock(p) \/ LvSel(p) \/ LvStates(p) \/ LvCommit(p) \/ JnCommit1(p) \/ JnCommit2(p)
    \/ ScSel(p) \/ ScEnd(p) \/ ScCommit(p)
    \/ TdSessions(p) \/ TdStates(p) \/ TdPresence(p) \/ TdActs(p) \/ TdCommit(p)
    \/ Return(p)

Next ==
    \/ Tick
    \/ \E p \in Procs : \E e \in Events : Dispatch(p, e, 1)
    \/ \E p \in Procs : Step(p)

Spec == Init /\ [][Next]_vars

-----------------------------------------------------------------------------
(* Listeners of several events running at once: discord.py starts one task *)
(* per dispatched event, and a task yields at every await.                 *)

ConcEvents ==
    StatusEvents \cup JoinEvents \cup {VoiceEvent(u, 1, 0, {"mute"}, {}) : u \in Users}

StepConc(p) ==
    \/ GuSel(p) \/ GuCommit(p) \/ NhSel(p) \/ NhCommit(p)
    \/ StClock(p) \/ StSel1(p) \/ StSel2(p) \/ StCommit(p)
    \/ VClock(p) \/ LvSel(p) \/ LvStates(p) \/ LvCommit(p) \/ JnCommit1(p) \/ JnCommit2(p)
    \/ Return(p)

NextConc ==
    \/ Tick
    \/ \E p \in Procs : \E e \in ConcEvents : Dispatch(p, e, Cardinality(Procs))
    \/ \E p \in Procs : StepConc(p)

SpecConc == Init /\ [][NextConc]_vars

(* The same for the presence status alone. *)

RaceEvents == StatusEvents \cup RemoveEvents

StepRace(p) ==
    \/ GuSel(p) \/ GuCommit(p) \/ NhSel(p) \/ NhCommit(p)
    \/ StClock(p) \/ StSel1(p) \/ StSel2(p) \/ StCommit(p)
    \/ TdSessions(p) \/ TdPresence(p) \/ TdActs(p) \/ TdCommit(p)
    \/ Return(p)

NextRace ==
    \/ Tick
    \/ \E p \in Procs : \E e \in RaceEvents : Dispatch(p, e, Cardinality(Procs))
    \/ \E p \in Procs : StepRace(p)

SpecRace == Init /\ [][NextRace]_vars

-----------------------------------------------------------------------------
(* Events handled one at a time, starting from the empty store or from a   *)
(* store in which racing status changes of SpecRace have left several open *)
(* presence rows of one user (the race that violates C2_OneOpenPresenceRace). *)

MaxOrphans == 2

OrphanRows(u) ==
    UNION {[1 .. k -> {PresenceStatusLog(u, "idle", t) : t \in 1 .. MaxTime}] : k \in 2 .. MaxOrphans}

Latest(rows) == CHOOSE t \in 1 .. MaxTime : /\ \E i \in DOMAIN rows : rows[i].set_at = t
                                            /\ \A i \in DOMAIN rows : rows[i].set_at <= t

InitOrphans ==
    /\ main = Running
    /\ proc = [p \in Procs |-> IdleProc]
    /\ member = [u \in Users |-> NameA]
    /\ nev = 0
    /\ \/ db = EmptyDB /\ now = 1
       \/ \E u \in Users : \E rows \in OrphanRows(u) :
            /\ db = [EmptyDB EXCEPT !.users = <<User(u, 0)>>,
                                    !.names = <<UserNameHistory(u, NameA, 1)>>,
                                    !.presence = rows]
            /\ now = Latest(rows)

NextOrphans ==
    \/ Tick
    \/ \E p \in Procs : \E e \in RaceEvents : Dispatch(p, e, 1)
    \/ \E p \in Procs : StepRace(p)

SpecOrphans == InitOrphans /\ [][NextOrphans]_vars

-----------------------------------------------------------------------------
(* Events handled one at a time under a clock that may be set back. *)

TickBack ==
    /\ now > 1
    /\ now' = now - 1
    /\ UNCHANGED <<db, proc, member, nev, main>>

NextSkew == Next \/ TickBack

SpecSkew == Init /\ [][NextSkew]_vars

-----------------------------------------------------------------------------
(* Events handled one at a time where a statement may raise (the storage   *)
(* fails or the process stops): get_async_session rolls the transaction    *)
(* back and the listener logs the error.                                   *)

Fail(p) ==
    /\ InFlight(p)
    /\ proc' = [proc EXCEPT ![p] = Go(@, "failed")]
    /\ UNCHANGED <<db, now, member, nev, main>>

NextCrash == Next \/ \E p \in Procs : Fail(p)

SpecCrash == Init /\ [][NextCrash]_vars

-----------------------------------------------------------------------------
(* The same failures around a member removal: events that open a session   *)
(* with a sub-state, a presence row and an activity row, then the removal. *)

TeardownEvents ==
    JoinEvents \cup RemoveEvents
    \cup {PresenceEvent(u, "online", "idle", {}, {Game}) : u \in Users}

StepTeardown(p) ==
    \/ GuSel(p) \/ GuCommit(p) \/ NhSel(p) \/ NhCommit(p)
    \/ StClock(p) \/ StSel1(p) \/ StSel2(p) \/ StCommit(p)
    \/ AcClock(p) \/ AcCommit(p)
    \/ VClock(p) \/ JnCommit1(p) \/ JnCommit2(p)
    \/ TdSessions(p) \/ TdStates(p) \/ TdPresence(p) \/ TdActs(p) \/ TdCommit(p)
    \/ Return(p)

NextTeardownCrash ==
    \/ Tick
    \/ \E p \in Procs : \E e \in TeardownEvents : Dispatch(p, e, 1)
    \/ \E p \in Procs : StepTeardown(p)
    \/ \E p \in Procs : Fail(p)

SpecTeardownCrash == Init /\ [][NextTeardownCrash]_vars

-----------------------------------------------------------------------------
(* Custom statuses alone, handled one at a time: set, replaced and cleared. *)

CustomEvents ==
    {e \in {PresenceEvent(u, "online", "online", ba, aa) :
               u \in Users, ba \in {{}, {Custom("v")}, {Custom("w")}},
               aa \in {{}, {Custom("v")}, {Custom("w")}}} : e.ba # e.aa}

StepCustom(p) ==
    \/ GuSel(p) \/ GuCommit(p) \/ NhSel(p) \/ NhCommit(p)
    \/ AcClock(p) \/ AcCommit(p) \/ CsSel(p) \/ CsCommit(p)
    \/ Return(p)

NextCustom ==
    \/ Tick
    \/ \E p \in Procs : \E e \in CustomEvents : Dispatch(p, e, 1)
    \/ \E p \in Procs : StepCustom(p)

SpecCustom == Init /\ [][NextCustom]_vars

-----------------------------------------------------------------------------
(* Messages next to the interval tables, handled one at a time: a message, *)
(* its edit and its delete, a join and a leave, a presence update that     *)
(* sets status, activity and custom status and one that clears them, and   *)
(* the removal of the member.                                              *)

MessageEvents ==
    {MessageEvent(u, FALSE, 1, 1, "reply", <<"h", "i">>, 0, 0, 1) : u \in Users}
    \cup {MessageEvent(u, FALSE, 1, 2, "auto_moderation_action", <<>>, 1, 0, 1) : u \in Users}
    \cup {MessageEvent(u, TRUE, 2, 1, "default", <<"h">>, 0, 0, 1) : u \in Users}

EditEvents ==
    {EditEvent(u, FALSE, mid, <<"h">>, 1, 2) : u \in Users, mid \in {1, 2}}

DeleteEvents == {DeleteEvent(u, FALSE, 1) : u \in Users}

LedgerEvents ==
    MessageEvents \cup EditEvents \cup DeleteEvents \cup JoinEvents \cup RemoveEvents
    \cup {VoiceEvent(u, 1, 0, {"mute"}, {}) : u \in Users}
    \cup {PresenceEvent(u, "online", "idle", {}, {Game, Custom("v")}) : u \in Users}
    \cup {PresenceEvent(u, "idle", "idle", {Game, Custom("v")}, {}) : u \in Users}
    \cup {PresenceEvent(u, "idle", "idle", {Game, Custom("v")}, {Game, Custom("w")}) : u \in Users}

StepLedger(p) ==
    \/ GuSel(p) \/ GuCommit(p) \/ NhSel(p) \/ NhCommit(p)
    \/ MsCommit(p) \/ MeSel(p) \/ MeCommit(p)
    \/ StClock(p) \/ StSel1(p) \/ StSel2(p) \/ StCommit(p)
    \/ AcClock(p) \/ AcEnd(p) \/ AcCommit(p) \/ CsSel(p) \/ CsCommit(p)
    \/ VClock(p) \/ LvSel(p) \/ LvStates(p) \/ LvCommit(p) \/ JnCommit1(p) \/ JnCommit2(p)
    \/ TdSessions(p) \/ TdStates(p) \/ TdPresence(p) \/ TdActs(p) \/ TdCommit(p)
    \/ Return(p)

NextLedger ==
    \/ Tick
    \/ \E p \in Procs : \E e \in LedgerEvents : Dispatch(p, e, 1)
    \/ \E p \in Procs : StepLedger(p)

SpecLedger == Init /\ [][NextLedger]_vars

-----------------------------------------------------------------------------
(* Two members that have been observed before, each in a voice channel    *)
(* with the mute flag set and with a presence status; their listeners are  *)
(* interleaved: a removal and a join of the one, a status change of the    *)
(* other.                                                                  *)

Subjects == {1, 2}

TwoEvents ==
    {RemoveEvent(1), VoiceEvent(1, 0, 1, {}, {"mute"}), PresenceEvent(2, "online", "idle", {}, {})}

InitTwo ==
    /\ main = Running
    /\ db = [EmptyDB EXCEPT
               !.users = [u \in Subjects |-> User(u, 0)],
               !.names = [u \in Subjects |-> UserNameHistory(u, NameA, 1)],
               !.presence = [u \in Subjects |-> PresenceStatusLog(u, "online", 1)],
               !.sessions = [u \in Subjects |-> VoiceSession(u, 1, 1)],
               !.states = [u \in Subjects |-> VoiceStateLog(u, "mute", 1)]]
    /\ now = 1
    /\ proc = [p \in Procs |-> IdleProc]
    /\ member = [u \in Subjects |-> NameA]
    /\ nev = 0

StepTwo(p) ==
    \/ GuSel(p)
    \/ StClock(p) \/ StSel1(p) \/ StSel2(p) \/ StCommit(p)
    \/ VClock(p) \/ JnCommit1(p) \/ JnCommit2(p)
    \/ TdSessions(p) \/ TdStates(p) \/ TdPresence(p) \/ TdActs(p) \/ TdCommit(p)
    \/ Return(p)

NextTwo ==
    \/ Tick
    \/ \E p \in Procs : \E e \in TwoEvents : Dispatch(p, e, Cardinality(Procs))
    \/ \E p \in Procs : StepTwo(p)

SpecTwo == InitTwo /\ [][NextTwo]_vars

-----------------------------------------------------------------------------
(* The voice listeners and the removal of one observed member interleaved, *)
(* the member being in no channel or in channel 1 with the mute flag set.  *)

VoiceRaceEvents ==
    JoinEvents \cup RemoveEvents
    \cup {VoiceEvent(u, 1, 0, {"mute"}, {}) : u \in Users}
    \cup {VoiceEvent(u, 1, 1, {"mute"}, {"self_deaf"}) : u \in Users}

InitVoiceRace ==
    /\ main = Running
    /\ now = 1
    /\ proc = [p \in Procs |-> IdleProc]
    /\ member = [u \in Users |-> NameA]
    /\ nev = 0
    /\ \E inChannel \in BOOLEAN :
         db = [EmptyDB EXCEPT
                 !.users = [u \in Users |-> User(u, 0)],
                 !.names = [u \in Users |-> UserNameHistory(u, NameA, 1)],
                 !.sessions = IF inChannel THEN [u \in Users |-> VoiceSession(u, 1, 1)]
                              ELSE <<>>,
                 !.states = IF inChannel THEN [u \in Users |-> VoiceStateLog(u, "mute", 1)]
                            ELSE <<>>]

StepVoiceRace(p) ==
    \/ GuSel(p)
    \/ VClock(p) \/ LvSel(p) \/ LvStates(p) \/ LvCommit(p) \/ JnCommit1(p) \/ JnCommit2(p)
    \/ ScSel(p) \/ ScEnd(p) \/ ScCommit(p)
    \/ TdSessions(p) \/ TdStates(p) \/ TdPresence(p) \/ TdActs(p) \/ TdCommit(p)
    \/ Return(p)

NextVoiceRace ==
    \/ Tick
    \/ \E p \in Procs : \E e \in VoiceRaceEvents : Dispatch(p, e, Cardinality(Procs))
    \/ \E p \in Procs : StepVoiceRace(p)

SpecVoiceRace == InitVoiceRace /\ [][NextVoiceRace]_vars

-----------------------------------------------------------------------------
(* Activities alone, handled one at a time: an activity starts, a second   *)
(* one starts beside it, the first stops, the second stops.                *)

ActivityChangeEvents ==
    {PresenceEvent(u, "online", "online", ba, aa) : u \in Users,
       ba \in {{}, {Game}}, aa \in {{Game}, {Game, Song}}}
    \cup {PresenceEvent(u, "online", "online", {Game, Song}, {Song}) : u \in Users}
    \cup {PresenceEvent(u, "online", "online", {Song}, {}) : u \in Users}

StepActivity(p) ==
    \/ GuSel(p) \/ GuCommit(p) \/ NhSel(p) \/ NhCommit(p)
    \/ AcClock(p) \/ AcEnd(p) \/ AcCommit(p)
    \/ Return(p)

NextActivity ==
    \/ Tick
    \/ \E p \in Procs : \E e \in ActivityChangeEvents : Dispatch(p, e, 1)
    \/ \E p \in Procs : StepActivity(p)

SpecActivity == Init /\ [][NextActivity]_vars

-----------------------------------------------------------------------------
(* Presence updates that change status, activities and custom status at    *)
(* once, handled one at a time, where a statement may raise.               *)

FullPresenceEvents ==
    {PresenceEvent(u, "online", "idle", {}, {Game, Custom("v")}) : u \in Users}
    \cup {PresenceEvent(u, "idle", "online", {Game, Custom("v")}, {Song, Custom("w")}) : u \in Users}

StepPresence(p) ==
    \/ GuSel(p) \/ GuCommit(p) \/ NhSel(p) \/ NhCommit(p)
    \/ StClock(p) \/ StSel1(p) \/ StSel2(p) \/ StCommit(p)
    \/ AcClock(p) \/ AcEnd(p) \/ AcCommit(p) \/ CsSel(p) \/ CsCommit(p)
    \/ Return(p)

NextPresenceCrash ==
    \/ Tick
    \/ \E p \in Procs : \E e \in FullPresenceEvents : Dispatch(p, e, 1)
    \/ \E p \in Procs : StepPresence(p)
    \/ \E p \in Procs : Fail(p)

SpecPresenceCrash == Init /\ [][NextPresenceCrash]_vars

-----------------------------------------------------------------------------
(* main() of bot.py from its first line, followed by activity events       *)
(* handled one at a time.                                                  *)

(* The same try/except without the return of the except clause. *)
InitDatabaseNoReturn ==
    /\ main.pc = "init"
    /\ \E ok \in BOOLEAN :
         main' = [main EXCEPT !.factory = ok, !.pc = "load"]
    /\ UNCHANGED <<db, now, proc, member, nev>>

(* init_database(): it sets async_session_factory, or it raises (no        *)
(* DATABASE_URL, or a URL create_engine rejects) and main logs and returns. *)
InitDatabase ==
    /\ main.pc = "init"
    /\ \E ok \in BOOLEAN :
         main' = [main EXCEPT !.factory = ok, !.pc = IF ok THEN "load" ELSE "exited"]
    /\ UNCHANGED <<db, now, proc, member, nev>>

(* bot.load_extension of every file of the cog folder: the listeners of    *)
(* Events are registered.                                                  *)
LoadExtensions ==
    /\ main.pc = "load"
    /\ main' = [main EXCEPT !.cogs = TRUE, !.pc = "start"]
    /\ UNCHANGED <<db, now, proc, member, nev>>

(* bot.start: the gateway connection is up and events are dispatched. *)
BotStart ==
    /\ main.pc = "start"
    /\ main' = [main EXCEPT !.pc = "running"]
    /\ UNCHANGED <<db, now, proc, member, nev>>

InitStartup ==
    /\ main = [pc |-> "init", factory |-> FALSE, cogs |-> FALSE]
    /\ db = EmptyDB
    /\ now = 1
    /\ proc = [p \in Procs |-> IdleProc]
    /\ member = [u \in Users |-> NameA]
    /\ nev = 0

NextStartup ==
    \/ InitDatabase
    \/ LoadExtensions
    \/ BotStart
    \/ NextActivity

SpecStartup == InitStartup /\ [][NextStartup]_vars

-----------------------------------------------------------------------------
(* An observed user with a row in every table: voice, presence and name    *)
(* events handled one at a time.                                           *)

FrameEvents ==
    {VoiceEvent(u, 1, ac, {"mute"}, af) : u \in Users, ac \in {0, 2}, af \in {{"mute"}}}
    \cup {VoiceEvent(u, 1, 1, {"mute"}, {"self_deaf"}) : u \in Users}
    \cup {PresenceEvent(u, "online", "idle", {Game, Custom("v")}, {Song, Custom("w")}) : u \in Users}
    \cup {UpdateEvent(u, NameB) : u \in Users}

InitFrame ==
    /\ main = Running
    /\ db = [EmptyDB EXCEPT
               !.users = [u \in Users |-> User(u, 0)],
               !.names = [u \in Users |-> UserNameHistory(u, NameA, 1)],
               !.presence = [u \in Users |-> PresenceStatusLog(u, "online", 1)],
               !.activity = [u \in Users |-> ActivityLog(u, <<"playing", "g">>, 1)],
               !.custom = [u \in Users |-> CustomStatus(u, <<"v", "none">>, 1)],
               !.sessions = [u \in Users |-> VoiceSession(u, 1, 1)],
               !.states = [u \in Users |-> VoiceStateLog(u, "mute", 1)],
               !.messages = [u \in Users |->
                               MessageActivity(MessageEvent(u, FALSE, 1, 1, "default",
                                                            <<"h">>, 0, 0, 1))]]
    /\ now = 1
    /\ proc = [p \in Procs |-> IdleProc]
    /\ member = [u \in Users |-> NameA]
    /\ nev = 0

StepFrame(p) ==
    \/ GuSel(p) \/ NhSel(p) \/ NhCommit(p)
    \/ StClock(p) \/ StSel1(p) \/ StSel2(p) \/ StCommit(p)
    \/ AcClock(p) \/ AcEnd(p) \/ AcCommit(p) \/ CsSel(p) \/ CsCommit(p)
    \/ VClock(p) \/ LvSel(p) \/ LvStates(p) \/ LvCommit(p) \/ JnCommit1(p) \/ JnCommit2(p)
    \/ ScSel(p) \/ ScEnd(p) \/ ScCommit(p)
    \/ Return(p)

NextFrame ==
    \/ Tick
    \/ \E p \in Procs : \E e \in FrameEvents : Dispatch(p, e, 1)
    \/ \E p \in Procs : StepFrame(p)

SpecFrame == InitFrame /\ [][NextFrame]_vars

-----------------------------------------------------------------------------
(* A consistent stream of voice events of one user, handled one at a time: *)
(* the first event starts outside any channel and the before snapshot of   *)
(* every later event is the after snapshot of the event handled last.      *)

Snapshots ==
    {<<0, {}>>} \cup {<<c, F>> : c \in Channels, F \in {{}, {"mute"}, {"self_deaf"}}}

StreamEvents ==
    {VoiceEvent(u, b[1], a[1], b[2], a[2]) : u \in Users, b \in Snapshots,
                                             a \in Snapshots \ {<<0, {}>>}}
    \cup {VoiceEvent(u, b[1], 0, b[2], {}) : u \in Users, b \in Snapshots \ {<<0, {}>>}}

(* The listener of the last event has returned and the gateway dispatches  *)
(* the next event of the stream.                                           *)
NextEvent(p, e) ==
    /\ nev < MaxEvents
    /\ proc[p].pc = "done"
    /\ e.user = proc[p].ev.user
    /\ e.bc = proc[p].ev.ac /\ e.bf = proc[p].ev.af
    /\ nev' = nev + 1
    /\ proc' = [proc EXCEPT ![p] =
                 [IdleProc EXCEPT !.pc = FirstPc(e), !.ev = e, !.pre = db]]
    /\ UNCHANGED <<db, now, member, main>>

StepStream(p) ==
    \/ GuSel(p) \/ GuCommit(p) \/ NhSel(p) \/ NhCommit(p)
    \/ VClock(p) \/ LvSel(p) \/ LvStates(p) \/ LvCommit(p) \/ JnCommit1(p) \/ JnCommit2(p)
    \/ ScSel(p) \/ ScEnd(p) \/ ScCommit(p)

NextStream ==
    \/ Tick
    \/ \E p \in Procs : \E e \in {x \in StreamEvents : x.bc = 0} : Dispatch(p, e, 1)
    \/ \E p \in Procs : \E e \in StreamEvents : NextEvent(p, e)
    \/ \E p \in Procs : StepStream(p)

SpecStream == Init /\ [][NextStream]_vars

-----------------------------------------------------------------------------
(* Properties. *)

OpenOf(d, T, u) == {i \in OpenIds(d, T) : d[T][i].user_id = u}

IsStatusChange(e) == e.kind = "presence" /\ e.bs # e.as

IsJoin(e) == e.kind = "voice" /\ e.bc = 0 /\ e.ac # 0

IsLeave(e) == e.kind = "voice" /\ e.bc # 0 /\ e.ac = 0

IsMove(e) == e.kind = "voice" /\ e.bc # 0 /\ e.ac # 0 /\ e.bc # e.ac

Closed(row, T) == row[CloseCol[T]] # NULL

(* C1: with events handled one at a time, every user has at most one presence
   row whose changed_at is null. *)
C1_OneOpenPresence == \A u \in Users : Cardinality(OpenOf(db, "presence", u)) <= 1

C1_Witness ==
    \E i, j \in DOMAIN db.presence :
        /\ db.presence[i].user_id = db.presence[j].user_id
        /\ db.presence[i].changed_at # NULL
        /\ db.presence[j].changed_at = NULL

(* C2: with the listeners of two status changes of one user interleaved, no
   committed state holds two presence rows of that user with changed_at null. *)
C2_OneOpenPresenceRace ==
    ~ \E i, j \in DOMAIN db.presence :
        /\ i < j
        /\ db.presence[i].user_id = db.presence[j].user_id
        /\ db.presence[i].changed_at = NULL
        /\ db.presence[j].changed_at = NULL

(* C3: a status change of a user with k >= 0 open presence rows writes the
   presence table once: every one of the k rows is closed, one open row with the
   new status is added, the close timestamps equal its set_at, and no other row
   changes. *)
C3_StatusChangeClosesAll ==
    [][\A p \in Procs :
         (InFlight(p) /\ IsStatusChange(proc[p].ev) /\ db'.presence # db.presence) =>
            LET u == proc[p].ev.user
                n == Len(db.presence)
            IN  /\ Len(db'.presence) = n + 1
                /\ db'.presence[n + 1].user_id = u
                /\ db'.presence[n + 1].status_type \in DiscordStatus
                /\ db'.presence[n + 1].status_type \in {proc[p].ev.as, "offline"}
                /\ db'.presence[n + 1].changed_at = NULL
                /\ \A i \in 1 .. n :
                     IF i \in OpenOf(db, "presence", u)
                     THEN db'.presence[i] =
                            [db.presence[i] EXCEPT !.changed_at = db'.presence[n + 1].set_at]
                     ELSE db'.presence[i] = db.presence[i]]_vars

C3_Witness ==
    \E p \in Procs :
        /\ proc[p].pc = "done"
        /\ IsStatusChange(proc[p].ev)
        /\ Cardinality(OpenOf(proc[p].pre, "presence", proc[p].ev.user)) >= 2
        /\ Cardinality(OpenOf(db, "presence", proc[p].ev.user)) = 1

(* C4: with events handled one at a time and a clock that never steps back,
   every row of every interval table has a null close timestamp or one that is
   not before its open timestamp. *)
C4_ValidPeriod ==
    \A T \in IntervalTables : \A i \in DOMAIN db[T] :
        Closed(db[T][i], T) => db[T][i][CloseCol[T]] >= db[T][i][OpenCol[T]]

C4_Witness ==
    /\ \E i \in DOMAIN db.presence : Closed(db.presence[i], "presence")
    /\ \E i \in DOMAIN db.states : Closed(db.states[i], "states")
    /\ \E i \in DOMAIN db.sessions : /\ Closed(db.sessions[i], "sessions")
                                     /\ db.sessions[i].left_at > db.sessions[i].joined_at

(* C5: with the listeners of a join and of a leave dispatched after it
   interleaved, every closed session row has left_at >= joined_at; with the
   listeners of two status changes interleaved, every closed presence row has
   changed_at >= set_at.  (The first event dispatched runs as coroutine 1.) *)
C5_ValidPeriodRace ==
    /\ (nev = 2 /\ IsJoin(proc[1].ev) /\ IsLeave(proc[2].ev)) =>
          \A i \in DOMAIN db.sessions :
             db.sessions[i].left_at = NULL \/ db.sessions[i].joined_at <= db.sessions[i].left_at
    /\ (nev = 2 /\ IsStatusChange(proc[1].ev) /\ IsStatusChange(proc[2].ev)) =>
          \A i \in DOMAIN db.presence :
             db.presence[i].changed_at = NULL \/ db.presence[i].set_at <= db.presence[i].changed_at

(* C6: when the clock has stepped back between two events, no step writes to a
   sub-state, session, activity, custom-status or presence row a close timestamp
   that is before the open timestamp of that row. *)
C6_CloseBeforeOpenRejected ==
    [][\A T \in {"states", "sessions", "activity", "custom", "presence"} :
       \A i \in DOMAIN db[T] :
         (~Closed(db[T][i], T) /\ Closed(db'[T][i], T)) =>
            db'[T][i][CloseCol[T]] >= db[T][i][OpenCol[T]]]_vars

(* C7: the commit of a leave that found an open session sets left_at of that
   session and leaves no sub-state row of that session open. *)
C7_LeaveClosesStates ==
    [][\A p \in Procs :
         (proc[p].pc = "lv_commit" /\ proc'[p].pc # "lv_commit") =>
            /\ db.sessions[proc[p].sel].left_at = NULL
            /\ db'.sessions[proc[p].sel].left_at = proc[p].t
            /\ \A i \in DOMAIN db'.states :
                 db'.states[i].session_id = proc[p].sel =>
                    /\ db'.states[i].ended_at # NULL
                    /\ db.states[i].ended_at = NULL => db'.states[i].ended_at = proc[p].t]_vars

C7_Witness ==
    \E p \in Procs : \E s \in DOMAIN db.sessions : \E i \in DOMAIN db.states :
        /\ proc[p].pc = "done"
        /\ proc[p].ev.kind = "voice" /\ proc[p].ev.bc # 0
        /\ db.sessions[s].user_id = proc[p].ev.user
        /\ db.sessions[s].channel_id = proc[p].ev.bc
        /\ proc[p].pre.sessions[s].left_at = NULL
        /\ db.sessions[s].left_at = proc[p].t
        /\ db.states[i].session_id = s
        /\ proc[p].pre.states[i].ended_at = NULL
        /\ db.states[i].ended_at = proc[p].t

(* The only open session of the user of move e in store d is in the old channel. *)
OnlyInOld(d, e) ==
    /\ Cardinality(OpenOf(d, "sessions", e.user)) = 1
    /\ \A s \in OpenOf(d, "sessions", e.user) : d.sessions[s].channel_id = e.bc

(* C8: a move of a user whose only open session is in the old channel closes
   that row, adds one open row for the new channel, changes no other session
   row, and left_at of the old row equals joined_at of the new one. *)
C8_MoveOneClosedOneOpen ==
    \A p \in Procs :
        (proc[p].pc = "done" /\ IsMove(proc[p].ev) /\ OnlyInOld(proc[p].pre, proc[p].ev)) =>
           LET e == proc[p].ev
               n == Len(proc[p].pre.sessions)
           IN  /\ Len(db.sessions) = n + 1
               /\ db.sessions[n + 1].user_id = e.user
               /\ db.sessions[n + 1].channel_id = e.ac
               /\ db.sessions[n + 1].left_at = NULL
               /\ \A s \in 1 .. n :
                    IF s \in OpenOf(proc[p].pre, "sessions", e.user)
                    THEN db.sessions[s] =
                           [proc[p].pre.sessions[s] EXCEPT !.left_at = db.sessions[n + 1].joined_at]
                    ELSE db.sessions[s] = proc[p].pre.sessions[s]

C8_Witness ==
    \E p \in Procs :
        /\ proc[p].pc = "done" /\ IsMove(proc[p].ev) /\ OnlyInOld(proc[p].pre, proc[p].ev)
        /\ now > proc[p].t

(* The rows of store d for the flags of flags under session sid. *)
StatesOf(d, sid) == {d.states[i].state_type : i \in {j \in DOMAIN d.states : d.states[j].session_id = sid}}

(* C9: once the listener of a move has ended, by returning or by failing, the
   session and sub-state tables are either as they were before the move or hold
   the whole move: the new session with the rows of its flags, and the old
   session closed. *)
C9_MoveAllOrNothing ==
    \A p \in Procs :
        (proc[p].pc \in {"done", "failed"} /\ IsMove(proc[p].ev)) =>
           LET e == proc[p].ev
               pre == proc[p].pre
               n == Len(pre.sessions)
               old == {s \in OpenOf(pre, "sessions", e.user) : pre.sessions[s].channel_id = e.bc}
           IN  \/ db.sessions = pre.sessions /\ db.states = pre.states
               \/ /\ Len(db.sessions) = n + 1
                  /\ db.sessions[n + 1].channel_id = e.ac
                  /\ db.sessions[n + 1].left_at = NULL
                  /\ StatesOf(db, n + 1) = e.af
                  /\ old # {} => \E s \in old : db.sessions[s].left_at # NULL

(* C10: after the listener of a member removal has returned without failure,
   the user has no open sub-state, session, presence or activity row, however
   many were open before. *)
C10_TeardownClosesAll ==
    \A p \in Procs :
        (proc[p].pc = "done" /\ proc[p].ev.kind = "remove" /\ proc[p].alone) =>
           LET u == proc[p].ev.user
           IN  /\ OpenOf(db, "sessions", u) = {}
               /\ OpenOf(db, "presence", u) = {}
               /\ OpenOf(db, "activity", u) = {}
               /\ \A i \in OpenIds(db, "states") : db.sessions[db.states[i].session_id].user_id # u

IsRemove(e) == e.kind = "remove"

(* C11: while and after the listener of a member removal runs, every
   custom-status row and every name-history row is as it was when the listener
   was called; an open custom-status row is still open. *)
C11_TeardownKeepsCustomAndNames ==
    \A p \in Procs :
        (IsRemove(proc[p].ev) /\ proc[p].alone) =>
           /\ db.custom = proc[p].pre.custom
           /\ db.names = proc[p].pre.names

C11_Witness ==
    \E p \in Procs : \E c \in DOMAIN db.custom : \E a \in DOMAIN db.activity :
        /\ proc[p].pc = "done" /\ IsRemove(proc[p].ev) /\ proc[p].alone
        /\ db.custom[c].user_id = proc[p].ev.user
        /\ db.custom[c].cleared_at = NULL
        /\ proc[p].pre.activity[a].ended_at = NULL
        /\ db.activity[a].ended_at = proc[p].t

(* C12: the closes of a member removal are persisted together or not at all:
   until the listener has returned, and after it has failed, the store is as it
   was when the listener was called; once it has returned, every session,
   sub-state, presence and activity row of the user that was open is closed with
   the one timestamp of the listener and no other row of these tables differs. *)
C12_TeardownAllOrNothing ==
    \A p \in Procs :
        (IsRemove(proc[p].ev) /\ proc[p].alone) =>
           LET pre == proc[p].pre
               u == proc[p].ev.user
               Mine(T, i) == IF T = "states"
                             THEN pre.sessions[pre.states[i].session_id].user_id = u
                             ELSE pre[T][i].user_id = u
           IN  IF proc[p].pc = "done"
               THEN \A T \in {"sessions", "states", "presence", "activity"} :
                      /\ Len(db[T]) = Len(pre[T])
                      /\ \A i \in DOMAIN pre[T] :
                           db[T][i] = IF i \in OpenIds(pre, T) /\ Mine(T, i)
                                      THEN [pre[T][i] EXCEPT ![CloseCol[T]] = proc[p].t]
                                      ELSE pre[T][i]
               ELSE db = pre

C12_Witness ==
    \E p \in Procs : \E s \in DOMAIN db.states :
        /\ proc[p].pc = "failed" /\ IsRemove(proc[p].ev) /\ proc[p].alone
        /\ OpenOf(proc[p].pre, "sessions", proc[p].ev.user) # {}
        /\ proc[p].pre.states[s].ended_at = NULL
        /\ OpenOf(proc[p].pre, "presence", proc[p].ev.user) # {}
        /\ OpenOf(proc[p].pre, "activity", proc[p].ev.user) # {}
        /\ db = proc[p].pre

(* The listener of a presence event has committed _handle_activity_change and
   its current_time is still in t. *)
ActivityDone(p) ==
    /\ proc[p].ev.kind = "presence" /\ proc[p].alone
    /\ proc[p].ev.ba # proc[p].ev.aa
    /\ \/ proc[p].pc = "cs_sel"
       \/ proc[p].pc = "done" /\ AfterActivity(proc[p].ev) = "done"

ActivityKey(row) == <<row.activity_type, row.activity_name>>

(* C13: an activity change never touches a closed activity row: a stop closes
   an open row of the stopped (type, name) at the current_time of the listener,
   and every start adds a new open row with that started_at, so start, stop and
   start again of one (type, name) gives two rows, the first closed at the stop. *)
C13_RestartAddsRow ==
    \A p \in Procs :
        ActivityDone(p) =>
           LET e == proc[p].ev
               pre == proc[p].pre
               n == Len(pre.activity)
           IN  /\ Len(db.activity) = n + Cardinality(Started(e))
               /\ \A i \in 1 .. n :
                    \/ db.activity[i] = pre.activity[i]
                    \/ /\ pre.activity[i].ended_at = NULL
                       /\ pre.activity[i].user_id = e.user
                       /\ ActivityKey(pre.activity[i]) \in Stopped(e)
                       /\ db.activity[i] = [pre.activity[i] EXCEPT !.ended_at = proc[p].t]
               /\ \A a \in Stopped(e) :
                    (\E i \in OpenOf(pre, "activity", e.user) : ActivityKey(pre.activity[i]) = a)
                       => \E i \in OpenOf(pre, "activity", e.user) :
                             /\ ActivityKey(pre.activity[i]) = a
                             /\ db.activity[i].ended_at = proc[p].t
               /\ \A i \in (n + 1) .. Len(db.activity) :
                    /\ db.activity[i].user_id = e.user
                    /\ ActivityKey(db.activity[i]) \in Started(e)
                    /\ db.activity[i].started_at = proc[p].t
                    /\ db.activity[i].ended_at = NULL

C13_Witness ==
    \E p \in Procs : \E i, j \in DOMAIN db.activity :
        /\ ActivityDone(p)
        /\ i <= Len(proc[p].pre.activity) /\ j > Len(proc[p].pre.activity)
        /\ ActivityKey(db.activity[i]) = ActivityKey(db.activity[j])
        /\ db.activity[i].user_id = db.activity[j].user_id
        /\ proc[p].pre.activity[i].ended_at # NULL
        /\ db.activity[i].ended_at < db.activity[j].started_at
        /\ db.activity[j].ended_at = NULL
        /\ Cardinality({k \in DOMAIN db.activity :
                          ActivityKey(db.activity[k]) = ActivityKey(db.activity[i])}) = 2

(* C14: with events handled one at a time, no two custom-status rows have the
   same user, text and emoji, so setting a value again after it was cleared or
   replaced adds no row. *)
C14_OneRowPerCustomValue ==
    \A i, j \in DOMAIN db.custom :
        (/\ db.custom[i].user_id = db.custom[j].user_id
         /\ db.custom[i].status_text = db.custom[j].status_text
         /\ db.custom[i].emoji = db.custom[j].emoji) => i = j

C14_Witness ==
    \E p \in Procs :
        /\ proc[p].pc = "done" /\ proc[p].alone
        /\ proc[p].ev.kind = "presence"
        /\ proc[p].ev.ba = {} /\ proc[p].ev.aa = {Custom("v")}
        /\ nev = 3
        /\ db.custom = proc[p].pre.custom
        /\ Cardinality({i \in DOMAIN db.custom : db.custom[i].status_text = "v"}) = 1

(* C15: in every state, every user that has a user record has exactly one
   name-history row with effective_until null. *)
C15_OneCurrentName ==
    \A u \in UserIds(db) : Cardinality(OpenOf(db, "names", u)) = 1

NamesOf(d, u) == {i \in DOMAIN d.names : d.names[i].user_id = u}

NameTriple(row) ==
    [username |-> row.username, display_name |-> row.display_name,
     global_name |-> row.global_name]

(* C16: the name rows of a user form a chain: the last one is open, every
   other one is closed with effective_until equal to effective_from of the next
   one; and a name change of a user with one current row adds exactly one row
   and changes no row but the current one, so two changes after the first
   observation give three rows, two closed and one open. *)
C16_NameChain ==
    /\ \A u \in Users : \A i \in NamesOf(db, u) :
          IF \A j \in NamesOf(db, u) : j <= i
          THEN db.names[i].effective_until = NULL
          ELSE LET nxt == CHOOSE j \in NamesOf(db, u) :
                             j > i /\ \A k \in NamesOf(db, u) : k > i => j <= k
               IN  db.names[i].effective_until = db.names[nxt].effective_from
    /\ \A p \in Procs :
          (/\ proc[p].pc = "done" /\ proc[p].ev.kind = "update" /\ proc[p].alone
           /\ Cardinality(OpenOf(proc[p].pre, "names", proc[p].ev.user)) = 1
           /\ \A i \in OpenOf(proc[p].pre, "names", proc[p].ev.user) :
                 NameTriple(proc[p].pre.names[i]) # proc[p].ev.an) =>
             LET pre == proc[p].pre
                 n == Len(pre.names)
             IN  /\ Len(db.names) = n + 1
                 /\ NameTriple(db.names[n + 1]) = proc[p].ev.an
                 /\ db.names[n + 1].user_id = proc[p].ev.user
                 /\ \A i \in 1 .. n :
                      pre.names[i].effective_until # NULL => db.names[i] = pre.names[i]

C16_Witness ==
    \E p \in Procs :
        /\ proc[p].pc = "done" /\ proc[p].ev.kind = "update" /\ proc[p].alone
        /\ Len(proc[p].pre.names) = 2
        /\ Len(db.names) = 3
        /\ NameTriple(db.names[1]) = NameA
        /\ NameTriple(db.names[2]) = NameB
        /\ NameTriple(db.names[3]) = NameA
        /\ db.names[1].effective_until = db.names[2].effective_from
        /\ db.names[2].effective_until = db.names[3].effective_from
        /\ db.names[2].effective_from < db.names[3].effective_from
        /\ db.names[3].effective_until = NULL

(* C17: after any sequence of voice and removal events handled one at a time,
   every user has at most one session row with left_at null. *)
C17_OneOpenSession ==
    \A u \in Users : Cardinality(OpenOf(db, "sessions", u)) <= 1

(* C18: after any sequence of presence and removal events handled one at a
   time, no two activity rows with ended_at null have the same user, activity
   type and activity name. *)
C18_OneOpenActivity ==
    \A i, j \in OpenIds(db, "activity") :
        (/\ db.activity[i].user_id = db.activity[j].user_id
         /\ ActivityKey(db.activity[i]) = ActivityKey(db.activity[j])) => i = j

(* C19: after any sequence of voice events handled one at a time, no two
   sub-state rows with ended_at null have the same session and flag. *)
C19_OneOpenState ==
    \A i, j \in OpenIds(db, "states") :
        (/\ db.states[i].session_id = db.states[j].session_id
         /\ db.states[i].state_type = db.states[j].state_type) => i = j

IsFlagChange(e) == e.kind = "voice" /\ e.bc # 0 /\ e.bc = e.ac

(* Row i of table T in store d is one the close part of event e asks to close. *)
Matches(d, e, T, i) ==
    LET OpenIn(ch) == {s \in OpenOf(d, "sessions", e.user) : d.sessions[s].channel_id = ch}
    IN  CASE IsRemove(e) ->
               IF T = "states" THEN d.states[i].session_id \in OpenOf(d, "sessions", e.user)
               ELSE T \in {"sessions", "presence", "activity"} /\ d[T][i].user_id = e.user
          [] IsLeave(e) \/ IsMove(e) ->
               \/ T = "sessions" /\ i \in OpenIn(e.bc)
               \/ T = "states" /\ d.states[i].session_id \in OpenIn(e.bc)
          [] IsFlagChange(e) ->
               /\ T = "states"
               /\ d.states[i].session_id \in OpenIn(e.ac)
               /\ d.states[i].state_type \in e.bf \ e.af
          [] e.kind = "presence" ->
               \/ T = "presence" /\ e.bs # e.as /\ d.presence[i].user_id = e.user
               \/ /\ T = "activity" /\ d.activity[i].user_id = e.user
                  /\ ActivityKey(d.activity[i]) \in Stopped(e)
          [] e.kind = "update" -> T = "names" /\ d.names[i].user_id = e.user
          [] OTHER -> FALSE

(* C20: no listener fails, and a listener that has returned has changed only
   rows that were open and that its event asks to close, each by setting its
   close timestamp; so a close that matches no open row changes no row, and a
   leave or a removal of a known user that matches nothing leaves the store as
   it was (the second delivery of a close event changes nothing). *)
C20_CloseWithoutMatchIsNoOp ==
    \A p \in Procs :
        /\ proc[p].pc # "failed"
        /\ (proc[p].pc = "done" /\ proc[p].alone /\ proc[p].ev.kind # "none") =>
             LET e == proc[p].ev
                 pre == proc[p].pre
             IN  /\ \A T \in IntervalTables : \A i \in DOMAIN pre[T] :
                       \/ db[T][i] = pre[T][i]
                       \/ /\ pre[T][i][CloseCol[T]] = NULL
                          /\ Matches(pre, e, T, i)
                          /\ db[T][i][CloseCol[T]] # NULL
                          /\ db[T][i] = [pre[T][i] EXCEPT ![CloseCol[T]] = db[T][i][CloseCol[T]]]
                 /\ db.users = pre.users \o SubSeq(db.users, Len(pre.users) + 1, Len(db.users))
                 /\ (/\ IsLeave(e) \/ IsRemove(e)
                     /\ \A T \in IntervalTables : \A i \in OpenIds(pre, T) :
                           ~Matches(pre, e, T, i)
                     /\ IsLeave(e) => e.user \in UserIds(pre)) => db = pre

C20_Witness ==
    \E p \in Procs : \E s \in DOMAIN db.sessions :
        /\ proc[p].pc = "done" /\ proc[p].alone /\ IsLeave(proc[p].ev)
        /\ proc[p].pre.sessions[s].user_id = proc[p].ev.user
        /\ proc[p].pre.sessions[s].channel_id = proc[p].ev.bc
        /\ proc[p].pre.sessions[s].left_at # NULL
        /\ proc[p].pre.sessions[s].left_at < proc[p].t
        /\ \A i \in OpenIds(proc[p].pre, "sessions") : ~Matches(proc[p].pre, proc[p].ev, "sessions", i)
        /\ db = proc[p].pre

(* C21: once a listener has failed, the store is as it was when its event was
   delivered (user and name rows aside), so that later events are handled as if
   the failed event had not been delivered. *)
C21_FailedEventLeavesNoTrace ==
    \A p \in Procs :
        (proc[p].pc = "failed" /\ proc[p].alone) =>
           \A T \in Tables \ {"users", "names"} : db[T] = proc[p].pre[T]

(* C22: a message whose message_id is already stored adds no row and changes
   none, and its failure ends in the except clause of the listener; no two rows
   have the same message_id. *)
C22_DuplicateMessageSkipped ==
    /\ \A i, j \in DOMAIN db.messages :
          db.messages[i].message_id = db.messages[j].message_id => i = j
    /\ \A p \in Procs :
          (/\ proc[p].ev.kind = "message" /\ ~proc[p].ev.bot /\ proc[p].alone
           /\ MessageRows(proc[p].pre, proc[p].ev.mid) # {}) =>
             /\ db = proc[p].pre
             /\ proc[p].pc \in {"gu_sel", "ms_commit", "failed"}

C22_Witness ==
    \E p \in Procs : \E i \in DOMAIN db.messages :
        /\ proc[p].pc = "failed" /\ proc[p].ev.kind = "message" /\ proc[p].alone
        /\ db.messages[i].message_id = proc[p].ev.mid
        /\ db.messages[i] # MessageActivity(proc[p].ev)
        /\ db = proc[p].pre

(* C23: an edit of a stored message sets character_count, has_attachments and
   has_embeds of the row with that message_id from the edited message and
   changes nothing else; an edit of a message that is not stored, or of a bot,
   changes nothing and adds no row. *)
C23_EditChangesThreeColumns ==
    \A p \in Procs :
        (proc[p].pc = "done" /\ proc[p].ev.kind = "edit" /\ proc[p].alone) =>
           LET e == proc[p].ev
               pre == proc[p].pre
           IN  IF e.bot \/ MessageRows(pre, e.mid) = {}
               THEN db = pre
               ELSE /\ \A T \in Tables \ {"messages"} : db[T] = pre[T]
                    /\ Len(db.messages) = Len(pre.messages)
                    /\ \A i \in DOMAIN pre.messages :
                         db.messages[i] =
                            IF pre.messages[i].message_id = e.mid
                            THEN [pre.messages[i] EXCEPT
                                    !.character_count = Len(e.content),
                                    !.has_attachments = e.attachments > 0,
                                    !.has_embeds = e.embeds > 0]
                            ELSE pre.messages[i]

C23_Witness ==
    \E p \in Procs : \E i \in DOMAIN db.messages :
        /\ proc[p].pc = "done" /\ proc[p].ev.kind = "edit" /\ proc[p].alone
        /\ proc[p].pre.messages[i].message_id = proc[p].ev.mid
        /\ proc[p].pre.messages[i].character_count # db.messages[i].character_count
        /\ proc[p].pre.messages[i].has_embeds # db.messages[i].has_embeds
        /\ db.messages[i].sent_at < now
        /\ db.messages[i].message_type = "reply"

(* Row new is row old of table T with nothing changed but what an event may
   change: the close timestamp of an interval row, the three metadata columns
   of a message row. *)
SameRow(T, old, new) ==
    CASE T \in IntervalTables ->
           [new EXCEPT ![CloseCol[T]] = NULL] = [old EXCEPT ![CloseCol[T]] = NULL]
      [] T = "messages" ->
           [new EXCEPT !.character_count = 0, !.has_attachments = FALSE, !.has_embeds = FALSE]
              = [old EXCEPT !.character_count = 0, !.has_attachments = FALSE, !.has_embeds = FALSE]
      [] OTHER -> new = old

(* C24: no step removes a row or changes the place of one: every table keeps
   its rows, and each row keeps its key, its payload and its open timestamp. *)
C24_RowsNeverRemoved ==
    [][\A T \in Tables :
         /\ Len(db'[T]) >= Len(db[T])
         /\ \A i \in DOMAIN db[T] : SameRow(T, db[T][i], db'[T][i])]_vars

C24_Witness ==
    \E p \in Procs : \E i \in DOMAIN db.messages : \E j \in DOMAIN db.names :
        /\ proc[p].pc = "done" /\ proc[p].ev.kind = "delete"
        /\ db.messages[i].message_id = proc[p].ev.mid
        /\ db.messages[i].user_id = proc[p].ev.user
        /\ db.names[j].user_id = proc[p].ev.user
        /\ nev = 3
        /\ db = proc[p].pre

(* The user a row is keyed to; a sub-state row is keyed to the user of its session. *)
Owner(d, T, i) ==
    IF T = "states" THEN d.sessions[d.states[i].session_id].user_id ELSE d[T][i].user_id

(* C25: with the listeners of two users interleaved, a step of the listener of
   an event of one user changes no row keyed to another user, sub-state rows of
   the other user's sessions included, and adds only rows keyed to its user. *)
C25_OtherSubjectsUntouched ==
    [][\A p \in Procs :
         (proc'[p] # proc[p] /\ InFlight(p)) =>
            \A T \in Tables : \A i \in DOMAIN db'[T] :
               IF i \in DOMAIN db[T]
               THEN Owner(db, T, i) # proc[p].ev.user => db'[T][i] = db[T][i]
               ELSE Owner(db', T, i) = proc[p].ev.user]_vars

C25_Witness ==
    \E p \in Procs : \E a, b \in DOMAIN db.sessions : \E s \in DOMAIN db.states :
        /\ proc[p].pc = "done" /\ IsRemove(proc[p].ev) /\ ~proc[p].alone
        /\ db.sessions[a].user_id = proc[p].ev.user
        /\ db.sessions[a].left_at = proc[p].t
        /\ db.sessions[b].user_id # proc[p].ev.user
        /\ db.sessions[b].left_at = NULL
        /\ db.states[s].session_id = b
        /\ db.states[s].ended_at = NULL

(* Every open sub-state row of store d belongs to a session that is open. *)
NoStateUnderClosedSession(d) ==
    \A i \in OpenIds(d, "states") : d.sessions[d.states[i].session_id].left_at = NULL

(* The two events delivered so far are one of kind A and one of kind B, and
   both listeners have not returned yet. *)
Racing(A(_), B(_)) ==
    /\ nev = 2
    /\ \/ A(proc[1].ev) /\ B(proc[2].ev)
       \/ B(proc[1].ev) /\ A(proc[2].ev)

(* C26: while the listeners of a flag change and a leave, of a flag change and
   a removal, or of a join and a removal of one member run interleaved, no
   committed state holds an open sub-state row under a closed session. *)
C26_NoOpenStateUnderClosedSessionRace ==
    (\/ Racing(IsFlagChange, IsLeave)
     \/ Racing(IsFlagChange, IsRemove)
     \/ Racing(IsJoin, IsRemove)) => NoStateUnderClosedSession(db)

(* The elements of sequence q from index k on. *)
From(q, k) == SubSeq(q, k, Len(q))

(* C27: a join, and the join of a move, adds one open session row for the user
   and the new channel and, under the id of that row, one open sub-state row for
   each flag that is set in the after snapshot and for no other flag, all with
   the timestamp of the listener; a join changes no stored session or sub-state
   row. *)
C27_JoinOpensSessionAndSetFlags ==
    \A p \in Procs :
        (proc[p].pc = "done" /\ proc[p].alone /\ (IsJoin(proc[p].ev) \/ IsMove(proc[p].ev))) =>
           LET e == proc[p].ev
               pre == proc[p].pre
               n == Len(pre.sessions)
               new == From(db.states, Len(pre.states) + 1)
           IN  /\ From(db.sessions, n + 1) = <<VoiceSession(e.user, e.ac, proc[p].t)>>
               /\ Len(new) = Cardinality(e.af)
               /\ \A f \in e.af : \E i \in DOMAIN new : new[i] = VoiceStateLog(n + 1, f, proc[p].t)
               /\ IsJoin(e) => /\ SubSeq(db.sessions, 1, n) = pre.sessions
                               /\ SubSeq(db.states, 1, Len(pre.states)) = pre.states

C27_Witness ==
    \E p \in Procs :
        /\ proc[p].pc = "done" /\ proc[p].alone /\ IsJoin(proc[p].ev)
        /\ proc[p].ev.af = {"mute"}
        /\ Len(proc[p].pre.sessions) >= 1
        /\ From(db.states, Len(proc[p].pre.states) + 1)
              = <<VoiceStateLog(Len(db.sessions), "mute", proc[p].t)>>
        /\ proc[p].t > 1

(* The open sessions of the user of e in channel ch, in store d. *)
OpenIn(d, e, ch) == {s \in OpenOf(d, "sessions", e.user) : d.sessions[s].channel_id = ch}

(* The open sub-state rows of flag f under session s, in store d. *)
OpenFlag(d, s, f) ==
    {i \in OpenIds(d, "states") : d.states[i].session_id = s /\ d.states[i].state_type = f}

(* C28: a same-channel voice update of a user with an open session in that
   channel leaves the session rows unchanged; under the latest such session it
   closes, for each flag that went off, one latest open row of that flag (if
   there is one) with the timestamp of the listener, adds one open row for each
   flag that went on, and changes no other sub-state row. *)
C28_FlagChangeTouchesFlippedOnly ==
    \A p \in Procs :
        (/\ proc[p].pc = "done" /\ proc[p].alone /\ IsFlagChange(proc[p].ev)
         /\ OpenIn(proc[p].pre, proc[p].ev, proc[p].ev.ac) # {}) =>
           LET e == proc[p].ev
               pre == proc[p].pre
               t == proc[p].t
               m == Len(pre.states)
               new == From(db.states, m + 1)
           IN  /\ db.sessions = pre.sessions
               /\ \E s \in MostRecent(pre, "sessions", OpenIn(pre, e, e.ac)) :
                    /\ Len(new) = Cardinality(e.af \ e.bf)
                    /\ \A f \in e.af \ e.bf : \E i \in DOMAIN new : new[i] = VoiceStateLog(s, f, t)
                    /\ \A i \in 1 .. m :
                         \/ db.states[i] = pre.states[i]
                         \/ /\ pre.states[i].state_type \in e.bf \ e.af
                            /\ i \in MostRecent(pre, "states", OpenFlag(pre, s, pre.states[i].state_type))
                            /\ db.states[i] = [pre.states[i] EXCEPT !.ended_at = t]
                    /\ \A f \in e.bf \ e.af :
                         OpenFlag(pre, s, f) # {} =>
                            Cardinality({i \in OpenFlag(pre, s, f) : db.states[i].ended_at = t}) = 1

C28_Witness ==
    \E p \in Procs : \E i, j, k \in DOMAIN db.states :
        /\ proc[p].pc = "done" /\ proc[p].alone /\ IsFlagChange(proc[p].ev)
        /\ i <= Len(proc[p].pre.states) /\ j <= Len(proc[p].pre.states)
        /\ proc[p].pre.states[i].state_type = "mute"
        /\ proc[p].pre.states[i].ended_at = NULL
        /\ db.states[i].ended_at = proc[p].t
        /\ db.states[j].state_type = "self_deaf"
        /\ db.states[j] = proc[p].pre.states[j]
        /\ db.states[j].ended_at = NULL
        /\ k > Len(proc[p].pre.states)
        /\ db.states[k].state_type = "self_video"
        /\ db.states[k].started_at > db.states[i].started_at

(* The open activity rows of user u and (type, name) a, in store d. *)
OpenKey(d, u, a) == {i \in OpenOf(d, "activity", u) : ActivityKey(d.activity[i]) = a}

(* C29: an activity change writes the activity table once, at its commit: for
   each (type, name) in before and not in after it closes one latest-started
   open row of the user (if there is one) with the timestamp of the listener,
   for each (type, name) in after and not in before it adds one open row, and it
   changes no other row. *)
C29_ActivityChangeIsSetDifference ==
    \A p \in Procs :
        /\ (proc[p].alone /\ proc[p].pc \in {"ac_clock", "ac_end", "ac_commit"}
            /\ proc[p].ev.bs = proc[p].ev.as) => db.activity = proc[p].pre.activity
        /\ ActivityDone(p) =>
             LET e == proc[p].ev
                 pre == proc[p].pre
                 t == proc[p].t
                 n == Len(pre.activity)
                 new == From(db.activity, n + 1)
             IN  /\ Len(new) = Cardinality(Started(e))
                 /\ \A a \in Started(e) : \E i \in DOMAIN new : new[i] = ActivityLog(e.user, a, t)
                 /\ \A i \in 1 .. n :
                      \/ db.activity[i] = pre.activity[i]
                      \/ /\ ActivityKey(pre.activity[i]) \in Stopped(e)
                         /\ i \in MostRecent(pre, "activity",
                                             OpenKey(pre, e.user, ActivityKey(pre.activity[i])))
                         /\ db.activity[i] = [pre.activity[i] EXCEPT !.ended_at = t]
                 /\ \A a \in Stopped(e) :
                      OpenKey(pre, e.user, a) # {} =>
                         Cardinality({i \in OpenKey(pre, e.user, a) :
                                        db.activity[i] # pre.activity[i]}) = 1

C29_Witness ==
    \E p \in Procs : \E i, j \in DOMAIN proc[p].pre.activity :
        /\ ActivityDone(p)
        /\ {i, j} \subseteq OpenKey(proc[p].pre, proc[p].ev.user, <<"playing", "g">>)
        /\ proc[p].pre.activity[i].started_at < proc[p].pre.activity[j].started_at
        /\ <<"playing", "g">> \in Stopped(proc[p].ev)
        /\ <<"listening", "s">> \notin Stopped(proc[p].ev) \cup Started(proc[p].ev)
        /\ db.activity[i].ended_at = NULL
        /\ db.activity[j].ended_at = proc[p].t

(* A presence update whose after snapshot carries no custom status while the
   before snapshot carries one. *)
IsCustomClear(e) ==
    /\ e.kind = "presence"
    /\ _extract_custom_status(e.ba) # NoCustom
    /\ _extract_custom_status(e.aa) = NoCustom

(* C30: every custom-status row has cleared_at = NULL in every state, and a
   presence update that clears the custom status leaves the custom-status table
   as it was, while it runs and when it has finished. *)
C30_CustomStatusNeverCleared ==
    /\ \A i \in DOMAIN db.custom : db.custom[i].cleared_at = NULL
    /\ \A p \in Procs :
         (proc[p].alone /\ proc[p].pc # "idle" /\ IsCustomClear(proc[p].ev))
            => db.custom = proc[p].pre.custom

C30_Witness ==
    \E p \in Procs :
        /\ proc[p].alone
        /\ proc[p].pc = "done"
        /\ IsCustomClear(proc[p].ev)
        /\ \E i, j \in DOMAIN proc[p].pre.custom :
             /\ proc[p].pre.custom[i].user_id = proc[p].ev.user
             /\ proc[p].pre.custom[j].user_id = proc[p].ev.user
             /\ proc[p].pre.custom[i].status_text # proc[p].pre.custom[j].status_text
        /\ db.custom = proc[p].pre.custom
        /\ \A i \in DOMAIN db.custom : db.custom[i].cleared_at = NULL

(* C31: a status change to a status name that is not a DiscordStatus value does
   not fail: when it has finished, every presence row of the user that was open
   is closed with the timestamp of the listener and one open row with
   status_type offline and that timestamp is added. *)
C31_UnknownStatusStoredAsOffline ==
    \A p \in Procs :
        (proc[p].alone /\ IsStatusChange(proc[p].ev) /\ proc[p].ev.as \notin DiscordStatus) =>
            /\ proc[p].pc # "failed"
            /\ proc[p].pc = "done" =>
                 LET u == proc[p].ev.user
                     pre == proc[p].pre
                     n == Len(pre.presence)
                 IN  /\ Len(db.presence) = n + 1
                     /\ db.presence[n + 1] = PresenceStatusLog(u, "offline", proc[p].t)
                     /\ \A i \in 1 .. n :
                          db.presence[i] =
                             IF i \in OpenOf(pre, "presence", u)
                             THEN [pre.presence[i] EXCEPT !.changed_at = proc[p].t]
                             ELSE pre.presence[i]

C31_Witness ==
    \E p \in Procs :
        /\ proc[p].alone /\ proc[p].pc = "done"
        /\ IsStatusChange(proc[p].ev)
        /\ proc[p].ev.as = "invisible"
        /\ Cardinality(OpenOf(proc[p].pre, "presence", proc[p].ev.user)) >= 2
        /\ OpenOf(db, "presence", proc[p].ev.user) = {Len(db.presence)}
        /\ db.presence[Len(db.presence)].status_type = "offline"

(* The place of a table in the order of closes of a teardown. *)
CloseRank(T) ==
    CASE T = "states" -> 1
      [] T = "sessions" -> 2
      [] T = "presence" -> 3
      [] T = "activity" -> 4
      [] OTHER -> 5

(* C32: within a teardown the closes are written in the order sub-states,
   sessions, presence, activities: while a close of the teardown is still to be
   sent, no close of a table later in that order has been sent. *)
C32_TeardownClosesStatesFirst ==
    \A p \in Procs :
        (InFlight(p) /\ IsRemove(proc[p].ev)) =>
            \A w \in proc[p].lock : \A x \in proc[p].pend :
                CloseRank(x[1]) >= CloseRank(w[1])

(* A presence update that changes the status, the activities and the custom
   status. *)
ChangesAllThree(e) ==
    /\ e.kind = "presence"
    /\ e.bs # e.as
    /\ _extract_real_activities(e.ba) # _extract_real_activities(e.aa)
    /\ _extract_custom_status(e.ba) # _extract_custom_status(e.aa)

(* C33: once the listener of a presence update that changes status, activities
   and custom status has failed, the presence, activity and custom-status tables
   are as they were when the event was delivered. *)
C33_PresenceUpdateAllOrNothing ==
    \A p \in Procs :
        (proc[p].pc = "failed" /\ proc[p].alone /\ ChangesAllThree(proc[p].ev)) =>
            /\ db.presence = proc[p].pre.presence
            /\ db.activity = proc[p].pre.activity
            /\ db.custom = proc[p].pre.custom

(* C34: when init_database has failed, main has returned, the listeners are not
   registered, no event has been dispatched, no listener runs and the store is
   untouched; an event is only ever dispatched with the session factory set and
   the listeners registered. *)
C34_NoProcessingAfterInitFailure ==
    /\ (main.pc # "init" /\ ~main.factory) =>
          /\ main.pc = "exited"
          /\ ~main.cogs
          /\ nev = 0
          /\ \A p \in Procs : proc[p].pc = "idle"
          /\ db = EmptyDB
    /\ (nev > 0 \/ \E p \in Procs : proc[p].pc # "idle") => (main.factory /\ main.cogs)

C34_Witness ==
    /\ main.pc = "exited"
    /\ ~main.factory
    /\ now = MaxTime
    /\ nev = 0

(* The tables an event of this kind may write for a stored user. *)
Dimensions(e) ==
    CASE e.kind = "voice" -> {"sessions", "states"}
      [] e.kind = "presence" -> {"presence", "activity", "custom"}
      [] e.kind = "update" -> {"names"}
      [] OTHER -> {}

(* C35: while and after the listener of a voice, presence or name event of a
   stored user runs alone, every table outside the dimensions of the event is as
   it was when the event was delivered: a voice event leaves presence, activity,
   custom-status, name, message and user rows alone, a presence event leaves
   session, sub-state, name, message and user rows alone, and a name event
   changes name rows only. *)
C35_EventTouchesOwnDimensions ==
    \A p \in Procs :
        (/\ proc[p].pc # "idle" /\ proc[p].alone
         /\ proc[p].ev.kind \in {"voice", "presence", "update"}
         /\ proc[p].ev.user \in UserIds(proc[p].pre)) =>
            \A T \in Tables \ Dimensions(proc[p].ev) : db[T] = proc[p].pre[T]

C35_Witness ==
    \E p \in Procs :
        /\ proc[p].pc = "done" /\ proc[p].alone
        /\ IsMove(proc[p].ev)
        /\ db.sessions # proc[p].pre.sessions
        /\ db.states # proc[p].pre.states
        /\ Len(proc[p].pre.names) = 2
        /\ Len(proc[p].pre.presence) = 2
        /\ Len(proc[p].pre.activity) = 2
        /\ Len(proc[p].pre.custom) = 2
        /\ Len(proc[p].pre.messages) = 1
        /\ \A T \in Tables \ {"sessions", "states"} : db[T] = proc[p].pre[T]

(* C36: with the listeners of status changes and member removals of one user
   interleaved, no step changes a close timestamp that is set: a row that two
   listeners have both read as open keeps the timestamp of the one that commits
   first. *)
C36_CloseNeverOverwritten ==
    [][\A T \in IntervalTables : \A i \in DOMAIN db[T] :
         Closed(db[T][i], T) => db'[T][i][CloseCol[T]] = db[T][i][CloseCol[T]]]_vars

(* C37: after every event of a consistent voice stream of a user, handled one
   at a time, the user has an open session row for channel c exactly when the
   after snapshot of the event is in c, and the flags with an open sub-state row
   under such a session are the flags set in that snapshot. *)
C37_VoiceRowsMirrorLastSnapshot ==
    \A p \in Procs :
        (proc[p].pc = "done" /\ proc[p].ev.kind = "voice") =>
            LET e == proc[p].ev
            IN  /\ \A c \in Channels : (OpenIn(db, e, c) # {}) <=> (c = e.ac)
                /\ \A s \in OpenOf(db, "sessions", e.user) :
                     {f \in {VoiceStateType[i] : i \in DOMAIN VoiceStateType} :
                        OpenFlag(db, s, f) # {}} = e.af

C37_Witness ==
    \E p \in Procs :
        /\ proc[p].pc = "done" /\ nev = 3
        /\ proc[p].ev.bc = 1 /\ proc[p].ev.ac = 2
        /\ proc[p].ev.bf = {"mute"} /\ proc[p].ev.af = {"self_deaf"}
        /\ Len(db.sessions) = 2
        /\ Len(db.states) >= 3
        /\ OpenIn(db, proc[p].ev, 2) = {2}
        /\ OpenIn(db, proc[p].ev, 1) = {}
        /\ OpenFlag(db, 2, "self_deaf") # {}
        /\ OpenFlag(db, 2, "mute") = {}

(* C38: with the listeners of two events of a user interleaved, the user has at
   most one user row and at most one current name row, and no listener ends in
   its except clause: the event of each is recorded. *)
C38_ConcurrentFirstEventsBothRecorded ==
    /\ \A u \in Users : Cardinality({i \in DOMAIN db.users : db.users[i].user_id = u}) <= 1
    /\ \A u \in Users : Cardinality(OpenOf(db, "names", u)) <= 1
    /\ \A p \in Procs : proc[p].pc # "failed"

(* C39: with events handled one at a time, every closed name row of a user
   differs from the next name row of that user in username, display name or
   global name, and the listener of a name event adds one name row and no more,
   also for a user that had no user row. *)
C39_NameChangeAddsOneDistinctRow ==
    /\ \A u \in Users : \A i, j \in NamesOf(db, u) :
          (/\ i < j /\ \A k \in NamesOf(db, u) : k > i => j <= k
           /\ db.names[i].effective_until # NULL) =>
             NameTriple(db.names[i]) # NameTriple(db.names[j])
    /\ \A p \in Procs :
          (proc[p].pc = "done" /\ proc[p].ev.kind = "update" /\ proc[p].alone) =>
             Len(db.names) <= Len(proc[p].pre.names) + 1

====
